----------------------------- MODULE MediaJobs -----------------------------
(***************************************************************************)
(* The media generators of OpenRouter (openrouter.rs) and the queue client *)
(* of fal.ai (fal.rs): a call picks the provider's protocol, orders the    *)
(* work, waits for a queued job, fetches the result and downloads its      *)
(* parts.  The work is paid for once it is ordered; what the call does     *)
(* afterwards does not stop it.                                            *)
(*                                                                         *)
(* Bodies of requests, media types and texts are left out.  Time is the    *)
(* time a call has spent in its polling loop, in seconds.                  *)
(***************************************************************************)
EXTENDS FalSchema

CONSTANTS
  Call,        \* calls of a generator, by any request
  Asks,        \* what the calls may ask for, together
  Endpoint,    \* fal.ai model ids that exist
  Published,   \* [Endpoint -> Schema]: the schemas they publish, which stay as they are
  Configured,  \* a function: mappings of the configuration, by endpoint
  NoModel,     \* the empty model id
  Timeout,     \* fal.timeout_seconds, video.timeout_seconds
  Interval,    \* fal.poll_interval_seconds, video.poll_interval_seconds
  LongestRetry, \* bound: the longest Retry-After header of fal.ai, in seconds
  Latency,     \* the longest a request may take (server.request_timeout_seconds)
  MaxParts     \* bound: parts of an answer

Kind == {"image", "speech", "music", "video", "solid", "vector", "transcription", "description"}
Ask == [kind : Kind, provider : {"openrouter", "aihub", "fal"},
        refs : SUBSET Media, says : SUBSET (Role \ Media), model : Endpoint \cup {NoModel}]

ASSUME JobsAssumption ==
  /\ Asks \subseteq [Call -> Ask]
  /\ \A asks \in Asks : \A c \in Call :
       \/ {"width", "height"} \cap asks[c].says = {}
       \/ {"width", "height", "ratio"} \subseteq asks[c].says
  /\ Published \in [Endpoint -> Schema]
  /\ DOMAIN Configured \subseteq Endpoint
  /\ \A e \in DOMAIN Configured : Configured[e] \in Mapping
  /\ NoModel \notin Endpoint
  /\ Timeout \in Nat /\ Interval \in Nat /\ Latency \in Nat /\ MaxParts \in Nat
  /\ LongestRetry \in Nat

VARIABLES
  ask,         \* what a call asks for
  at,          \* where the call is
  discovered,  \* FalClient.discovered: endpoints whose live schema was mapped
  job,         \* the provider's work for a call
  spent,       \* seconds since the call entered its polling loop
  seen,        \* history: spent at the last status answer
  pause,       \* how long the next sleep is
  left,        \* parts of the answer still to download
  got,         \* parts in hand
  result,      \* what the call returns
  cause        \* history: why it failed

wait  == <<spent, seen, pause>>
parts == <<left, got>>
vars  == <<ask, at, discovered, job, wait, parts, result, cause>>

At == {"idle", "resolving", "ordering", "checking", "looking", "sleeping",
       "fetching", "collecting", "over"}

TypeOK ==
  /\ ask \in [Call -> Ask]
  /\ at \in [Call -> At]
  /\ discovered \subseteq Endpoint
  /\ job \in [Call -> {"none", "running", "completed", "failed"}]
  /\ spent \in [Call -> Nat] /\ seen \in [Call -> Nat] /\ pause \in [Call -> Nat]
  /\ left \in [Call -> Nat] /\ got \in [Call -> Nat]
  /\ result \in [Call -> {"open", "made", "failed"}]
  /\ cause \in [Call -> {"none", "refused", "request", "answer", "job", "timeout", "dropped"}]

Init ==
  /\ ask \in Asks
  /\ at = [c \in Call |-> "idle"]
  /\ discovered = {}
  /\ job = [c \in Call |-> "none"]
  /\ spent = [c \in Call |-> 0] /\ seen = [c \in Call |-> 0]
  /\ pause = [c \in Call |-> 0]
  /\ left = [c \in Call |-> 0] /\ got = [c \in Call |-> 0]
  /\ result = [c \in Call |-> "open"]
  /\ cause = [c \in Call |-> "none"]

-----------------------------------------------------------------------------
(* Providers and capabilities                                              *)

Artifact == {"solid", "vector"}

OnFal(c) == ask[c].provider = "fal" \/ ask[c].kind \in Artifact

\* The capability a generator asks an endpoint for, and the general one it
\* accepts instead.
Specialized(kind, refs) ==
  CASE kind = "image" -> IF "image" \in refs THEN "image_to_image" ELSE "text_to_image"
    [] kind = "video" -> IF "video" \in refs THEN "video_to_video"
                         ELSE IF "image" \in refs THEN "image_to_video" ELSE "text_to_video"
    [] kind = "speech" -> "text_to_speech"
    [] kind = "music" -> IF "video" \in refs THEN "video_to_audio" ELSE "text_to_audio"
    [] kind = "solid" -> IF "image" \in refs THEN "image_to_3d" ELSE "text_to_3d"
    [] kind = "vector" -> IF "image" \in refs THEN "image_to_image_vector"
                          ELSE "text_to_image_vector"
    [] kind = "transcription" -> "transcription"
    [] kind = "description" -> IF "video" \in refs THEN "video_understanding"
                               ELSE "image_understanding"

General(kind) ==
  CASE kind = "image" -> {"image_generation"}
    [] kind = "video" -> {"video_generation"}
    [] kind = "speech" -> {"speech_generation"}
    [] kind = "music" -> {"music_generation"}
    [] OTHER -> {}

\* The mapping of an endpoint.
Is(e) == IF e \in DOMAIN Configured THEN Configured[e] ELSE Derived(Published[e])

\* endpoint_supports: the capability itself, or the general one it belongs to.
Supports(e, requested) ==
  \/ requested \in Is(e).capabilities
  \/ requested \in {"text_to_image", "image_to_image"} /\ "image_generation" \in Is(e).capabilities
  \/ /\ requested \in {"text_to_video", "image_to_video", "video_to_video"}
     /\ "video_generation" \in Is(e).capabilities
  \/ requested \in {"text_to_audio", "video_to_audio"} /\ "music_generation" \in Is(e).capabilities
  \/ /\ requested = "text_to_speech"
     /\ {"speech_generation", "audio_generation"} \cap Is(e).capabilities # {}

\* endpoint and endpoint_any
Usable(c) ==
  LET wanted == {Specialized(ask[c].kind, ask[c].refs)} \cup General(ask[c].kind)
  IN \E capability \in wanted : Supports(ask[c].model, capability)

\* fal_input fails for a transcription endpoint it has no audio field for.
InputFits(e) == "transcription" \in Is(e).capabilities => Is(e).field.audio # NoField

\* A prompt and its geometry go with everything but a transcription, a language
\* with nothing else.
Says(c) ==
  IF ask[c].kind = "transcription" THEN ask[c].says \cap {"language"}
                                   ELSE ask[c].says \ {"language"}

Filled(c) == Input(Is(ask[c].model), ask[c].refs, Says(c))

\* The generators that refuse before they send anything.
RefusesImage(c) ==
  /\ ask[c].kind = "image"
  /\ \/ ask[c].model = NoModel
     \/ ask[c].provider = "aihub" /\ "image" \in ask[c].refs
RefusesMusic(c) == ask[c].kind = "music" /\ ask[c].provider = "aihub"
RefusesVideo(c) ==
  /\ ask[c].kind = "video"
  /\ ask[c].provider = "aihub" \/ (ask[c].provider = "openrouter" /\ ask[c].model = NoModel)

-----------------------------------------------------------------------------
(* The calls                                                               *)

Fails(c, why) ==
  /\ at' = [at EXCEPT ![c] = "over"]
  /\ result' = [result EXCEPT ![c] = "failed"]
  /\ cause' = [cause EXCEPT ![c] = why]

Goes(c, to) ==
  /\ at' = [at EXCEPT ![c] = to]
  /\ UNCHANGED <<result, cause>>

Begin(c) ==
  /\ at[c] = "idle"
  /\ IF RefusesImage(c) \/ RefusesMusic(c) \/ RefusesVideo(c)
     THEN Fails(c, "refused")
     ELSE Goes(c, IF OnFal(c) THEN "resolving" ELSE "ordering")
  /\ UNCHANGED <<ask, discovered, job, wait, parts>>

\* resolve_endpoint: a configured mapping, a mapping discovered earlier, or one
\* made now from the live schema, which is kept for every later call.
Known(e) == e \in DOMAIN Configured \cup discovered

Resolve(c) ==
  /\ at[c] = "resolving"
  /\ ask[c].model \in Endpoint
  /\ Known(ask[c].model) \/ Derivable(Published[ask[c].model])
  /\ discovered' = IF Known(ask[c].model) THEN discovered ELSE discovered \cup {ask[c].model}
  /\ IF Usable(c) /\ InputFits(ask[c].model) THEN Goes(c, "ordering") ELSE Fails(c, "refused")
  /\ UNCHANGED <<ask, job, wait, parts>>

\* The schema request fails, the catalog does not list the model, or its schema
\* cannot be mapped.
ResolveFails(c) ==
  /\ at[c] = "resolving" /\ ~Known(ask[c].model)
  /\ Fails(c, "request")
  /\ UNCHANGED <<ask, discovered, job, wait, parts>>

\* Work that is queued as a job, and work that is answered at once: fal.ai does
\* either, OpenRouter queues videos only.
Queues(c) == OnFal(c) \/ ask[c].kind = "video"
AnswersAtOnce(c) == OnFal(c) \/ ask[c].kind # "video"

\* The order is accepted, and the answer names the job.
OrderQueued(c) ==
  /\ at[c] = "ordering" /\ Queues(c)
  /\ job' = [job EXCEPT ![c] = "running"]
  /\ Goes(c, "checking")
  /\ UNCHANGED <<ask, discovered, wait, parts>>

\* The order is accepted; its answer is lost or unusable.
OrderAnswerLost(c) ==
  /\ at[c] = "ordering"
  /\ \/ Queues(c) /\ job' = [job EXCEPT ![c] = "running"]
     \/ AnswersAtOnce(c) /\ job' = [job EXCEPT ![c] = "completed"]
  /\ Fails(c, "answer")
  /\ UNCHANGED <<ask, discovered, wait, parts>>

\* The order does not reach the provider, or is rejected.
OrderFails(c) ==
  /\ at[c] = "ordering"
  /\ Fails(c, "request")
  /\ UNCHANGED <<ask, discovered, job, wait, parts>>

\* The parts of an answer that are downloaded, of n: all images that are not in
\* the answer itself, the first file of fal.ai; a video's URL is passed on as it
\* is, and texts and sounds of OpenRouter are in the answer.
Downloads(c, n) ==
  CASE ask[c].kind = "image" -> IF OnFal(c) THEN {n} ELSE 0 .. n
    [] ask[c].kind \in {"speech", "music"} \cup Artifact /\ OnFal(c) -> {1}
    [] OTHER -> {0}

\* The answer is in hand: it has parts, or none that can be used.
Takes(c) ==
  \/ \E n \in 1 .. MaxParts : \E k \in Downloads(c, n) :
       /\ left' = [left EXCEPT ![c] = k]
       /\ got' = [got EXCEPT ![c] = n - k]
       /\ Goes(c, "collecting")
  \/ Fails(c, "answer") /\ UNCHANGED parts

OrderAnswered(c) ==
  /\ at[c] = "ordering" /\ AnswersAtOnce(c)
  /\ job' = [job EXCEPT ![c] = "completed"]
  /\ Takes(c)
  /\ UNCHANGED <<ask, discovered, wait>>

\* The job goes on by itself, whatever became of the call.
ProviderFinishes(c) ==
  /\ job[c] = "running"
  /\ \E end \in {"completed", "failed"} : job' = [job EXCEPT ![c] = end]
  /\ UNCHANGED <<ask, at, discovered, wait, parts, result, cause>>

-----------------------------------------------------------------------------
(* The two polling loops: FalClient::run tests the clock, looks and sleeps; *)
(* generate_video_with_references tests the clock, sleeps and looks.        *)

\* Mutant: a pause of no length.
PauseAsGiven(n) == n

\* .max(1)
AtLeastOne(n) == IF n < 1 THEN 1 ELSE n

\* Mutant: the clock is started anew by every look.
CheckSinceLook(c) ==
  /\ at[c] = "checking"
  /\ IF spent[c] - seen[c] > Timeout
     THEN Fails(c, "timeout") /\ UNCHANGED pause
     ELSE /\ Goes(c, IF OnFal(c) THEN "looking" ELSE "sleeping")
          /\ pause' = [pause EXCEPT ![c] = IF OnFal(c) THEN @ ELSE AtLeastOne(Interval)]
  /\ UNCHANGED <<ask, discovered, job, spent, seen, parts>>

Check(c) ==
  /\ at[c] = "checking"
  /\ IF spent[c] > Timeout
     THEN Fails(c, "timeout") /\ UNCHANGED pause
     ELSE /\ Goes(c, IF OnFal(c) THEN "looking" ELSE "sleeping")
          /\ pause' = [pause EXCEPT ![c] = IF OnFal(c) THEN @ ELSE AtLeastOne(Interval)]
  /\ UNCHANGED <<ask, discovered, job, spent, seen, parts>>

\* Mutant: the clock is tested after the pause for a video as well.
SleepThenCheck(c) ==
  /\ at[c] = "sleeping"
  /\ spent' = [spent EXCEPT ![c] = @ + pause[c]]
  /\ Goes(c, IF ~OnFal(c) /\ spent[c] + pause[c] <= Timeout THEN "looking" ELSE "checking")
  /\ UNCHANGED <<ask, discovered, job, seen, pause, parts>>

Sleep(c) ==
  /\ at[c] = "sleeping"
  /\ spent' = [spent EXCEPT ![c] = @ + pause[c]]
  /\ Goes(c, IF OnFal(c) THEN "checking" ELSE "looking")
  /\ UNCHANGED <<ask, discovered, job, seen, pause, parts>>

\* A request takes up to Latency seconds.
SpendsTime(c) == \E d \in 0 .. Latency : spent' = [spent EXCEPT ![c] = @ + d]

\* The status request fails, is answered with an error (429 and its Retry-After
\* among them) or with something unreadable: the call is over.
LookFails(c) ==
  /\ at[c] = "looking"
  /\ SpendsTime(c)
  /\ Fails(c, "request")
  /\ UNCHANGED <<ask, discovered, job, seen, pause, parts>>

LooksRunning(c) ==
  /\ at[c] = "looking" /\ job[c] = "running"
  /\ SpendsTime(c)
  /\ seen' = [seen EXCEPT ![c] = spent'[c]]
  /\ IF OnFal(c)
     THEN /\ Goes(c, "sleeping")
          /\ \E seconds \in 0 .. LongestRetry \cup {Interval} :
               pause' = [pause EXCEPT ![c] = AtLeastOne(seconds)]
     ELSE Goes(c, "checking") /\ UNCHANGED pause
  /\ UNCHANGED <<ask, discovered, job, parts>>

\* Mutant: a job that failed is taken for one with a result.
LooksFailedAsDone(c) ==
  /\ at[c] = "looking" /\ job[c] = "failed"
  /\ SpendsTime(c)
  /\ seen' = [seen EXCEPT ![c] = spent'[c]]
  /\ Goes(c, "fetching")
  /\ UNCHANGED <<ask, discovered, job, pause, parts>>

LooksFailed(c) ==
  /\ at[c] = "looking" /\ job[c] = "failed"
  /\ SpendsTime(c)
  /\ seen' = [seen EXCEPT ![c] = spent'[c]]
  /\ Fails(c, "job")
  /\ UNCHANGED <<ask, discovered, job, pause, parts>>

\* fal.ai keeps the result behind another URL; OpenRouter's last status has it.
LooksCompleted(c) ==
  /\ at[c] = "looking" /\ job[c] = "completed"
  /\ SpendsTime(c)
  /\ seen' = [seen EXCEPT ![c] = spent'[c]]
  /\ IF OnFal(c) THEN Goes(c, "fetching") /\ UNCHANGED parts ELSE Takes(c)
  /\ UNCHANGED <<ask, discovered, job, pause>>

Fetch(c) ==
  /\ at[c] = "fetching"
  /\ Takes(c) \/ (Fails(c, "request") /\ UNCHANGED parts)
  /\ UNCHANGED <<ask, discovered, job, wait>>

-----------------------------------------------------------------------------
(* Parts                                                                   *)

\* One part that cannot be downloaded, or is of a wrong form, fails the call.
DownloadFails(c) ==
  /\ at[c] = "collecting" /\ left[c] > 0
  /\ Fails(c, "request")
  /\ UNCHANGED <<ask, discovered, job, wait, parts>>

\* A part of fal.ai that is not an image is left out of the images.
Download(c) ==
  /\ at[c] = "collecting" /\ left[c] > 0
  /\ left' = [left EXCEPT ![c] = @ - 1]
  /\ \E n \in IF ask[c].kind = "image" /\ OnFal(c) THEN {0, 1} ELSE {1} :
       got' = [got EXCEPT ![c] = @ + n]
  /\ UNCHANGED <<ask, at, discovered, job, wait, result, cause>>

Return(c) ==
  /\ at[c] = "collecting" /\ left[c] = 0
  /\ IF got[c] = 0
     THEN Fails(c, "answer")
     ELSE /\ at' = [at EXCEPT ![c] = "over"]
          /\ result' = [result EXCEPT ![c] = "made"]
          /\ UNCHANGED cause
  /\ UNCHANGED <<ask, discovered, job, wait, parts>>

\* The request the call belongs to is cancelled: its future is dropped at an
\* await, and nobody tells the provider.
Dropped(c) ==
  /\ at[c] \notin {"idle", "over"}
  /\ Fails(c, "dropped")
  /\ UNCHANGED <<ask, discovered, job, wait, parts>>

-----------------------------------------------------------------------------

CallStep(c) ==
  \/ Begin(c) \/ Resolve(c) \/ ResolveFails(c)
  \/ OrderQueued(c) \/ OrderAnswered(c) \/ OrderAnswerLost(c) \/ OrderFails(c)
  \/ Check(c) \/ Sleep(c)
  \/ LooksRunning(c) \/ LooksFailed(c) \/ LooksCompleted(c) \/ LookFails(c)
  \/ Fetch(c) \/ Download(c) \/ DownloadFails(c) \/ Return(c)

Next == \E c \in Call : CallStep(c) \/ ProviderFinishes(c) \/ Dropped(c)

Spec == Init /\ [][Next]_vars

(***************************************************************************)
(* Fairness.  The runtime polls a call that can go on, and each request of *)
(* it ends within the time-out of the shared HTTP client.  Nothing is      *)
(* assumed of the provider: a job may run for ever.                        *)
(***************************************************************************)
FairSpec == Spec /\ \A c \in Call : WF_vars(CallStep(c))

-----------------------------------------------------------------------------
(* Properties                                                              *)

LongestPause(c) ==
  AtLeastOne(IF OnFal(c) /\ LongestRetry > Interval THEN LongestRetry ELSE Interval)

\* Polling goes on past the time-out by one request and one pause at most; the
\* pause of a fal.ai job is as long as the Retry-After header says, without a
\* limit of its own (FalClient::run, generate_video_with_references).
EndsNearTimeout ==
  \A c \in Call : spent[c] <= Timeout + Latency + LongestPause(c)

\* A job that is given up when its time is over was looked at not long before:
\* a video just before, a fal.ai job before the pause it was given last, in
\* which it may have finished.
LooksBeforeGivingUp ==
  \A c \in Call : cause[c] = "timeout" =>
    spent[c] - seen[c] <= IF OnFal(c) THEN pause[c] ELSE 0

\* What an order lacks of the inputs the endpoint requires.
Lacks(c) == Published[ask[c].model].required \ Filled(c)

Discovers(c) == at[c] = "ordering" /\ OnFal(c) /\ ask[c].model \notin DOMAIN Configured

\* No order is paid for that fal.ai cannot take for a reason known before: what
\* an endpoint whose mapping was derived requires is in the order, unless the
\* request says nothing of it; the medium its capability is named for is always
\* in, or a default in its place (endpoint_from_openapi, fal_input).
OrdersLackOnlyTheUnsaid ==
  \A c \in Call : Discovers(c) =>
    LET field == Is(ask[c].model).field
        needed == Needs(Specialized(ask[c].kind, ask[c].refs))
    IN /\ Lacks(c) \subseteq {field[r] : r \in Role \ (ask[c].refs \cup Says(c))}
       /\ needed \subseteq ask[c].refs => {Parent(field[r]) : r \in needed} \subseteq Filled(c)

\* A call ends, by itself, even if its job never does.
CallsEnd == \A c \in Call : at[c] # "idle" ~> at[c] = "over"

\* Ordered once, finished by the provider only, delivered only when finished:
\* whatever fails or is dropped in between (PaidWork).
Paid == INSTANCE PaidWork WITH work <- job

PaidWorkSpec == Paid!Spec
=============================================================================
