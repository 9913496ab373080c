----------------------------- MODULE RequestPlan -----------------------------
(***************************************************************************)
(* From the text of a request to what is done about it: the planner's      *)
(* models are asked in turn (OpenRouter::plan_request), the plan they make *)
(* is cut down to what is enabled and asked for, the words of a direct     *)
(* generation are selected (plan_generation_prompt), researched            *)
(* (ground_visual_prompt) and expanded (expand_prompt), each by a ladder   *)
(* of models of its own, and process_message takes one way out.            *)
(***************************************************************************)
EXTENDS PromptEnvelope, FiniteSets, Functions

CONSTANTS
  Requests,    \* requests with their attachments and what is enabled
  Plans,       \* plans the planner may answer with
  Selections,  \* prompts it may select
  Models       \* the planner's model and its fallback, one after the other

NoPlan == [action |-> "none"]

Action ==
  {"chat", "generate_code", "transcribe", "generate_image", "generate_speech", "generate_music",
   "generate_audio", "generate_video", "generate_3d", "generate_vector", "refuse"}

PlannedSkill ==
  {"generate_code", "search", "web_fetch", "image_generation", "speech_generation",
   "audio_generation", "music_generation", "video_generation", "three_d_generation",
   "vector_generation", "image_understanding", "video_understanding", "transcription",
   "file_delivery", "model_upgrade", "prompt_expansion"}

Step == (PlannedSkill \ {"generate_code", "audio_generation", "model_upgrade", "prompt_expansion"})
          \cup {"compose_text"}

Flag ==
  {"search", "web_fetch", "image", "audio", "music", "video", "three_d", "vector", "media",
   "transcription", "file", "model_upgrade", "prompt_expansion"}

\* What is read of a request: its words, whether they ask for code or for a
\* file of code (explicit_code_artifact_requested, explicit_code_file_requested),
\* and the action an overridden model is made for.
Request ==
  [words : Seq(Word), code : BOOLEAN, file : BOOLEAN, reply : BOOLEAN, quote : BOOLEAN,
   attached : SUBSET {"image", "video", "audio"}, enabled : SUBSET Flag, key : BOOLEAN,
   override : Action \cup {"none"}]

\* Skills are a set: plan_request keeps the first of equal ones. Of the steps that are
\* left of a plan each keeps its place.
Plan ==
  [action : Action, skills : SUBSET PlannedSkill, steps : Seq(Step), delivery : {"inline", "file"},
   refusal : {"empty", "text"}]

ASSUME PlanAssumption ==
  /\ Requests \subseteq Request /\ \A r \in Requests : r.file => r.code
  /\ Plans \subseteq Plan
  /\ Selections \subseteq Selection
  /\ Len(Models) \in 1 .. 2 /\ Models \in Seq({Models[i] : i \in DOMAIN Models})

VARIABLES
  request,
  stage,       \* which models are being asked, or where the request is
  form,        \* the form an answer must have: a schema, any object, or text
  left,        \* models still to be asked in this form
  insufficient, \* received_valid_structure: a model judged the research
  plan,
  selection,   \* the words selected for a direct generation
  prompt,      \* the words that go to the generator
  made,        \* which ladders wrote the prompt anew: "grounding", "expansion"
  outcome

ladder == <<form, left, insufficient>>
planVars == <<request, stage, ladder, plan, selection, prompt, made, outcome>>

\* A model's own refusal (parse_planner_response) is a plan like any other.
NativeRefusal ==
  [action |-> "refuse", skills |-> {}, steps |-> <<>>, delivery |-> "inline", refusal |-> "text"]

Answers == Plans \cup {NativeRefusal}

\* What may be left of a planner's plan.
Rest ==
  [action : Action, skills : SUBSET PlannedSkill,
   steps : UNION {{Restrict(p.steps, places) : places \in SUBSET DOMAIN p.steps} : p \in Answers},
   delivery : {"inline", "file"}, refusal : {"empty", "text"}]

NoSelection == [core |-> <<0, 0>>, excerpt |-> "none", sources |-> {}]

Generated == {"image", "speech", "music", "video", "3d", "vector"}

\* "file": the answer of the chat is handed over as a file.
Outcome ==
  {"open", "chat", "file", "workflow", "refuse", "transcribe", "failed"} \cup Generated

Asking == {"planning", "extracting", "grounding", "expanding"}

PlanTypeOK ==
  /\ request \in Request
  /\ stage \in Asking \cup {"routing", "researching", "done"}
  /\ form \in {"schema", "object", "text"}
  /\ left \in Seq({Models[i] : i \in DOMAIN Models})
  /\ insufficient \in BOOLEAN
  /\ plan \in Rest \cup {NoPlan}
  /\ selection \in Selection
  /\ prompt \in Seq(Word \cup {Style, Quoted, Rewritten})
  /\ made \subseteq {"grounding", "expansion"}
  /\ outcome \in Outcome

PlanInit ==
  /\ request \in Requests
  /\ stage = IF request.key THEN "planning" ELSE "routing"
  /\ form = "schema" /\ left = Models /\ insufficient = FALSE
  /\ plan = NoPlan
  /\ selection = NoSelection
  /\ prompt = <<>> /\ made = {}
  /\ outcome = "open"

-----------------------------------------------------------------------------
(* What is enabled                                                         *)

SkillFlag(skill) ==
  CASE skill \in {"search", "web_fetch", "transcription", "model_upgrade", "prompt_expansion"} -> skill
    [] skill = "image_generation" -> "image"
    [] skill \in {"speech_generation", "audio_generation"} -> "audio"
    [] skill = "music_generation" -> "music"
    [] skill = "video_generation" -> "video"
    [] skill = "three_d_generation" -> "three_d"
    [] skill = "vector_generation" -> "vector"
    [] skill \in {"image_understanding", "video_understanding"} -> "media"
    [] skill = "file_delivery" -> "file"
    [] OTHER -> "always"

\* enabled_planner_skills and workflow_step_enabled
SkillEnabled(skill, r) == SkillFlag(skill) \in r.enabled \cup {"always"}

ActionFlag(action) ==
  CASE action = "generate_image" -> "image"
    [] action \in {"generate_speech", "generate_audio"} -> "audio"
    [] action = "generate_music" -> "music"
    [] action = "generate_video" -> "video"
    [] action = "generate_3d" -> "three_d"
    [] action = "generate_vector" -> "vector"
    [] action = "transcribe" -> "transcription"
    [] OTHER -> "always"

\* planned_action_enabled
ActionEnabled(action, r) == ActionFlag(action) \in r.enabled \cup {"always"}

-----------------------------------------------------------------------------
(* The plan that is left of what the planner said                          *)

Composed(p) == Cardinality(DOMAIN p.steps) >= 2

\* Mutant: disabled skills stay in the plan.
KeepAll(p, r) == p

\* retain of skills and of steps
KeepEnabled(p, r) ==
  [p EXCEPT !.skills = {s \in @ : SkillEnabled(s, r)},
            !.steps = RestrictValues(@, LAMBDA s : SkillEnabled(s, r))]

\* A workflow runs in the chat loop; a single step is none.
AsWorkflow(p) ==
  IF Composed(p) THEN [p EXCEPT !.action = "chat"] ELSE [p EXCEPT !.steps = <<>>]

WithoutDisabledAction(p, r) ==
  IF ActionEnabled(p.action, r) THEN p ELSE [p EXCEPT !.action = "chat", !.refusal = "empty"]

\* Code needs evidence in the caller's own words.
WithCodeEvidence(p, r) ==
  IF p.action = "generate_code" /\ ~r.code
  THEN [p EXCEPT !.action = "chat", !.skills = @ \ {"generate_code"}]
  ELSE p

InlineUnlessCodeFile(p, r) ==
  IF p.action = "generate_code" /\ r.file /\ p.delivery = "file" /\ "file" \in r.enabled
  THEN p
  ELSE [p EXCEPT !.delivery = "inline", !.skills = @ \ {"file_delivery"}]

WithRefusalText(p) ==
  IF p.action = "refuse" THEN [p EXCEPT !.refusal = "text"] ELSE p

Normalized(p, r) ==
  WithRefusalText(InlineUnlessCodeFile(WithCodeEvidence(
    WithoutDisabledAction(AsWorkflow(KeepEnabled(p, r)), r), r), r))

SkillAction(skill) ==
  CASE skill = "image_generation" -> "generate_image"
    [] skill \in {"speech_generation", "audio_generation"} -> "generate_speech"
    [] skill = "music_generation" -> "generate_music"
    [] skill = "video_generation" -> "generate_video"
    [] skill = "three_d_generation" -> "generate_3d"
    [] skill = "vector_generation" -> "generate_vector"
    [] OTHER -> "none"

\* direct_generation
DirectGeneration(p) ==
  LET generations == {s \in p.skills : SkillAction(s) # "none"}
  IN IF p = NoPlan \/ Composed(p) THEN "none"
     ELSE CASE p.action \in {"generate_image", "generate_speech", "generate_music", "generate_audio",
                             "generate_video", "generate_3d", "generate_vector"} -> p.action
            [] p.action \in {"chat", "generate_code"} /\ Cardinality(generations) = 1 ->
                 SkillAction(CHOOSE s \in generations : TRUE)
            [] OTHER -> "none"

-----------------------------------------------------------------------------
(* The ladders: a model that does not answer in time, answers with an      *)
(* error or with what cannot be used gives way to the next                 *)

Ask(next, inForm) == stage' = next /\ form' = inForm /\ left' = Models /\ insufficient' = FALSE

TryFails ==
  /\ stage \in Asking /\ left # <<>>
  /\ left' = Tail(left)
  /\ UNCHANGED <<request, stage, form, insufficient, plan, selection, prompt, made, outcome>>

\* Mutant: a model that found the research insufficient is not heeded.
WeakenAnyway ==
  /\ stage \in {"planning", "grounding"} /\ form = "schema" /\ left = <<>>
  /\ form' = "object" /\ left' = Models
  /\ UNCHANGED <<request, stage, insufficient, plan, selection, prompt, made, outcome>>

\* Mutant: the models are asked for the schema over and over.
AskAgain ==
  /\ stage \in {"planning", "grounding"} /\ form = "schema" /\ left = <<>> /\ ~insufficient
  /\ left' = Models
  /\ UNCHANGED <<request, stage, form, insufficient, plan, selection, prompt, made, outcome>>

\* No model kept to the schema: ask them all for any JSON object.
Weaken ==
  /\ stage \in {"planning", "grounding"} /\ form = "schema" /\ left = <<>> /\ ~insufficient
  /\ form' = "object" /\ left' = Models
  /\ UNCHANGED <<request, stage, insufficient, plan, selection, prompt, made, outcome>>

\* plan_request gives up, which leaves the request to the chat.
PlannerExhausted ==
  /\ stage = "planning" /\ form = "object" /\ left = <<>>
  /\ stage' = "routing"
  /\ UNCHANGED <<request, ladder, plan, selection, prompt, made, outcome>>

PlannerAnswers(p) ==
  /\ stage = "planning" /\ left # <<>>
  /\ plan' = Normalized(p, request)
  /\ IF DirectGeneration(plan') # "none"
     THEN Ask("extracting", "schema")
     ELSE stage' = "routing" /\ UNCHANGED ladder
  /\ UNCHANGED <<request, selection, prompt, made, outcome>>

SelectionAnswers(s) ==
  /\ stage = "extracting" /\ left # <<>> /\ Valid(s, request)
  /\ selection' = s
  /\ stage' = "routing"
  /\ UNCHANGED <<request, ladder, plan, prompt, made, outcome>>

\* The whole text is selected; a request without one loses its plan, for the
\* validation at the end of plan_request fails.
ExtractionExhausted ==
  /\ stage = "extracting" /\ left = <<>>
  /\ IF request.words = <<>>
     THEN plan' = NoPlan /\ UNCHANGED selection
     ELSE /\ selection' = [core |-> <<1, Len(request.words)>>, excerpt |-> "none",
                           sources |-> {"current_request"}]
          /\ UNCHANGED plan
  /\ stage' = "routing"
  /\ UNCHANGED <<request, ladder, prompt, made, outcome>>

-----------------------------------------------------------------------------
(* process_message: the way out                                            *)

End(result) == stage' = "done" /\ outcome' = result

HasSkill(skill) == plan # NoPlan /\ skill \in plan.skills

Transcribes == plan # NoPlan /\ plan.action = "transcribe" /\ "audio" \in request.attached

GenerationAction == IF request.override # "none" THEN request.override ELSE DirectGeneration(plan)

\* generation_command
Command ==
  CASE GenerationAction = "generate_image" -> "image"
    [] GenerationAction \in {"generate_speech", "generate_audio"} -> "speech"
    [] GenerationAction = "generate_music" -> "music"
    [] GenerationAction = "generate_video" -> "video"
    [] GenerationAction = "generate_3d" -> "3d"
    [] GenerationAction = "generate_vector" -> "vector"
    [] OTHER -> "none"

NeedsResearch == Command \in {"image", "video", "3d", "vector"} /\ HasSkill("search")

Said == IF plan = NoPlan THEN request.words ELSE EffectivePrompt(selection, request)

Transcribe ==
  /\ stage = "routing" /\ Transcribes
  /\ End("transcribe")
  /\ UNCHANGED <<request, ladder, plan, selection, prompt, made>>

\* With the prompt complete but for the expansion that was asked for.
ExpandOrMake ==
  IF HasSkill("prompt_expansion")
  THEN Ask("expanding", "text") /\ UNCHANGED outcome
  ELSE End(Command) /\ UNCHANGED ladder

StartGeneration ==
  /\ stage = "routing" /\ ~Transcribes /\ Command # "none"
  /\ prompt' = StripDirective(Command, Said, request)
  /\ IF NeedsResearch
     THEN stage' = "researching" /\ UNCHANGED <<ladder, outcome>>
     ELSE ExpandOrMake
  /\ UNCHANGED <<request, plan, selection, made>>

Refuse ==
  /\ stage = "routing" /\ Command = "none" /\ plan # NoPlan /\ plan.action = "refuse"
  /\ End("refuse")
  /\ UNCHANGED <<request, ladder, plan, selection, prompt, made>>

\* The assistant's chat, in which the steps of a workflow are tools; what a model
\* that sent no file itself said of a file of code becomes one
\* (apply_planned_delivery).
Chat ==
  /\ stage = "routing" /\ ~Transcribes /\ Command = "none"
  /\ plan # NoPlan => plan.action # "refuse"
  /\ IF plan # NoPlan /\ Composed(plan) THEN End("workflow")
     ELSE \/ End("chat")
          \/ /\ plan # NoPlan /\ plan.action = "generate_code" /\ plan.delivery = "file"
             /\ "file" \in request.enabled
             /\ End("file")
  /\ UNCHANGED <<request, ladder, plan, selection, prompt, made>>

Researched ==
  /\ stage = "researching"
  /\ Ask("grounding", "schema")
  /\ UNCHANGED <<request, plan, selection, prompt, made, outcome>>

ResearchFails ==
  /\ stage = "researching"
  /\ End("failed")
  /\ UNCHANGED <<request, ladder, plan, selection, prompt, made>>

\* The model found that the research does not show what the subject looks like.
FindsInsufficient ==
  /\ stage = "grounding" /\ left # <<>>
  /\ IF form = "schema"
     THEN insufficient' = TRUE /\ left' = Tail(left)
     ELSE left' = <<>> /\ UNCHANGED insufficient
  /\ UNCHANGED <<request, stage, form, plan, selection, prompt, made, outcome>>

Grounded ==
  /\ stage = "grounding" /\ left # <<>>
  /\ prompt' = <<Rewritten>> /\ made' = made \cup {"grounding"}
  /\ ExpandOrMake
  /\ UNCHANGED <<request, plan, selection>>

GroundingExhausted ==
  /\ stage = "grounding" /\ left = <<>> /\ (form = "object" \/ insufficient)
  /\ End("failed")
  /\ UNCHANGED <<request, ladder, plan, selection, prompt, made>>

Expanded ==
  /\ stage = "expanding" /\ left # <<>>
  /\ prompt' = <<Rewritten>> /\ made' = made \cup {"expansion"}
  /\ End(Command)
  /\ UNCHANGED <<request, ladder, plan, selection>>

\* An answer without a message ends expand_prompt before the fallback is asked.
ExpansionAborts ==
  /\ stage = "expanding" /\ left # <<>>
  /\ End("failed")
  /\ UNCHANGED <<request, ladder, plan, selection, prompt, made>>

ExpansionExhausted ==
  /\ stage = "expanding" /\ left = <<>>
  /\ End("failed")
  /\ UNCHANGED <<request, ladder, plan, selection, prompt, made>>

Done == stage = "done" /\ UNCHANGED planVars

Advance ==
  \/ TryFails \/ Weaken \/ PlannerExhausted
  \/ \E p \in Answers : PlannerAnswers(p)
  \/ \E s \in Selections : SelectionAnswers(s)
  \/ ExtractionExhausted
  \/ Transcribe \/ StartGeneration \/ Refuse \/ Chat
  \/ Researched \/ ResearchFails \/ FindsInsufficient \/ Grounded \/ GroundingExhausted
  \/ Expanded \/ ExpansionAborts \/ ExpansionExhausted

PlanNext == Advance \/ Done

PlanSpec == PlanInit /\ [][PlanNext]_planVars

\* Every question to a model has a time-out, and a search has the client's.
FairPlanSpec == PlanSpec /\ WF_planVars(PlanNext)

-----------------------------------------------------------------------------
(* Properties                                                              *)

FlagOf(result) ==
  CASE result = "speech" -> "audio"
    [] result = "3d" -> "three_d"
    [] OTHER -> result

\* Whatever the planner says, nothing is generated, researched or expanded that
\* the caller has switched off (unless the overridden model can do nothing
\* else), no answer becomes a file of code unless the caller's words ask for one,
\* and no refusal is empty. That prose too long for a message is attached as a
\* file (materialize_oversized_text) is no decision of a plan.
NothingDisabledIsDone ==
  /\ outcome \in Generated /\ request.override = "none" => FlagOf(outcome) \in request.enabled
  /\ "grounding" \in made \/ stage \in {"researching", "grounding"} => "search" \in request.enabled
  /\ "expansion" \in made \/ stage = "expanding" => "prompt_expansion" \in request.enabled
  /\ outcome = "transcribe" => "transcription" \in request.enabled
  /\ outcome = "workflow" => \A i \in DOMAIN plan.steps : SkillEnabled(plan.steps[i], request)
  /\ outcome = "file" => request.file /\ "file" \in request.enabled
  /\ outcome = "refuse" => plan.refusal = "text"

\* What was taken off the front of text to get to rest.
Dropped(text, rest) == SubSeq(text, 1, Len(text) - Len(rest))

\* What is in front of a last word that is added to the caller's.
InFront(words, added) ==
  IF words # <<>> /\ words[Len(words)] = added THEN SubSeq(words, 1, Len(words) - 1) ELSE words

WithoutStyle == InFront(prompt, Style)

\* A prompt that no ladder wrote anew is the caller's: an excerpt of the request,
\* with the reply's where the reply was selected, of which only the words that
\* ask for the thing are dropped, never its subject or the style it shall have;
\* a style is added to a picture alone, and never to one that names its own.
PromptIsTheCallers ==
  prompt # <<>> /\ made = {} =>
    LET own == InFront(Said, Quoted)
    IN /\ WithoutStyle # <<>>
       /\ own = <<>> \/ InWords(own, request.words)
       /\ Said = Dropped(Said, WithoutStyle) \o WithoutStyle
       /\ \A i \in DOMAIN Dropped(Said, WithoutStyle) :
            Directive(Said[i]) \/ Envelope(Command, Said[i])
       /\ Holds(prompt, Quoted) => request.reply \/ request.quote
       /\ Holds(prompt, Style) => Command = "image" /\ ~Holds(prompt, "photo")

\* A generation for which the plan asks for research is made of a grounded
\* prompt or not at all, and once a model has judged the research insufficient
\* no weaker form of the question is put, so that no looks are made up.
LooksAreNotMadeUp ==
  /\ outcome \in Generated /\ NeedsResearch => "grounding" \in made
  /\ insufficient => form = "schema"

\* Every request finds its way out, however the models answer.
EveryRequestIsRouted == <>(stage = "done")
=============================================================================
