------------------------------ MODULE ToolLoop ------------------------------
(***************************************************************************)
(* The tool loop of one assistant request (OpenRouter::chat): the model is  *)
(* asked, the tools it calls are run one after the other, and it is asked   *)
(* again with their results, for a bounded number of rounds. Generators are *)
(* paid for: a single-stage request ends with the round that made something,*)
(* a composed workflow goes on until the model answers in words.            *)
(*                                                                         *)
(* A model answers what it likes: it may call a tool that was not offered,  *)
(* or that is switched off, or one that it has called before.               *)
(***************************************************************************)
EXTENDS Naturals, Sequences

CONSTANTS
  Tool,      \* the names the model may call
  Rounds,    \* MAX_TOOL_ROUNDS
  MaxCalls   \* bound: calls in one message of the model

Generators == {"generate_image", "generate_speech", "generate_audio", "generate_music",
               "generate_video", "generate_3d", "generate_vector"}

ASSUME ToolAssumption ==
  /\ Tool \subseteq Generators \cup {"web_search", "transcribe_audio", "send_file", "unknown"}
  /\ Rounds \in Nat \ {0}
  /\ MaxCalls \in Nat \ {0}

\* What a call's argument holds: the model's own words, words of the caller, or
\* nothing that can be used.
Argument == {"written", "excerpt", "nothing"}
Call == [tool : Tool, argument : Argument]
Message == UNION {[1..n -> Call] : n \in 1..MaxCalls}

\* Where a generation prompt comes from; "none" is no prompt yet.
Source == {"none", "request", "excerpt", "selected", "written"}

VARIABLES
  enabled,    \* tools whose capability is on, and whose key or input is there
  composed,   \* the planner authorised a workflow of several steps
  phase,      \* where the loop is
  round,      \* messages of the model that called tools
  offered,    \* tools in the last request to the model
  calls,      \* calls of the current message that are still to be handled
  owed,       \* calls among the messages that have no result there
  prompt,     \* the generation prompt taken from the caller's text, once it is
  completed,  \* generators that have made something
  made,       \* how often each tool has made something
  sources,    \* the prompts each generator was given
  ran         \* tools that have done their work

vars == <<enabled, composed, phase, round, offered, calls, owed, prompt,
          completed, made, sources, ran>>
requestVars == <<enabled, composed>>
artifactVars == <<completed, made, sources, ran>>

TypeOK ==
  /\ enabled \subseteq Tool
  /\ composed \in BOOLEAN
  /\ phase \in {"asking", "waiting", "calling", "answered", "failed"}
  /\ round \in 0..Rounds
  /\ offered \subseteq Tool
  /\ calls \in Seq(Call)
  /\ owed \in Nat
  /\ prompt \in Source
  /\ completed \subseteq Generators \cap Tool
  /\ made \in [Tool -> Nat]
  /\ sources \subseteq Generators \X Source
  /\ ran \subseteq Tool

\* Both names of speech have one switch.
Switches == {on \in SUBSET (Tool \ {"unknown"}) :
               {"generate_speech", "generate_audio"} \subseteq Tool =>
                 ("generate_speech" \in on <=> "generate_audio" \in on)}

Init ==
  /\ enabled \in Switches
  /\ composed \in BOOLEAN
  /\ phase = "asking"
  /\ round = 0
  /\ offered = {}
  /\ calls = <<>>
  /\ owed = 0
  /\ prompt = "none"
  /\ completed = {}
  /\ made = [t \in Tool |-> 0]
  /\ sources = {}
  /\ ran = {}

-----------------------------------------------------------------------------
(* Asking the model                                                        *)

\* generate_audio is another name of generate_speech, under which it is offered.
Names(t) == IF t = "generate_speech" THEN {"generate_speech", "generate_audio"} ELSE {t}

\* add_tools: what is enabled, but for generators that have made something.
Offered == {t \in enabled \ {"generate_audio"} : Names(t) \cap completed = {}}

Ask ==
  /\ phase = "asking"
  /\ phase' = "waiting"
  /\ offered' = Offered
  /\ UNCHANGED <<round, calls, owed, prompt, requestVars, artifactVars>>

\* The request fails, or what it returns holds no message, or an empty one.
AskFails ==
  /\ phase = "waiting"
  /\ phase' = "failed"
  /\ UNCHANGED <<round, offered, calls, owed, prompt, requestVars, artifactVars>>

\* materialize_code_file_answer: long code becomes a file, unless there is one.
\* 3D and vector artifacts are files too.
Files == {"send_file", "generate_3d", "generate_vector"} \cap Tool
WithCodeFile ==
  IF "send_file" \in enabled /\ \A t \in Files : made[t] = 0
  THEN [made EXCEPT !["send_file"] = @ + 1] ELSE made

\* The model answers in words, or with media of its own.
Answer ==
  /\ phase = "waiting"
  /\ phase' = "answered"
  /\ made' \in {made, WithCodeFile}
  /\ UNCHANGED <<round, offered, calls, owed, prompt, completed, sources, ran, requestVars>>

\* Its message joins the conversation with all its calls.
CallTools ==
  /\ phase = "waiting"
  /\ phase' = "calling"
  /\ round' = round + 1
  /\ \E m \in Message : calls' = m /\ owed' = owed + Len(m)
  /\ UNCHANGED <<offered, prompt, requestVars, artifactVars>>

-----------------------------------------------------------------------------
(* Running a tool                                                          *)

call == Head(calls)

\* The result of a call joins the conversation, and the next call is next.
Result == calls' = Tail(calls) /\ owed' = owed - 1

\* A generator that has made something is not run again under the same name.
Skip ==
  /\ phase = "calling" /\ calls # <<>>
  /\ call.tool \in completed
  /\ Result
  /\ UNCHANGED <<phase, round, offered, prompt, requestVars, artifactVars>>

\* Mutant: a generator is run whenever it is called.
RunnableAgain == phase = "calling" /\ calls # <<>>

Runnable == phase = "calling" /\ calls # <<>> /\ call.tool \notin completed

\* Mutant: the model's words are taken in a single-stage request, too.
PromptOfTheModel(next) == next = IF call.argument = "nothing" THEN prompt ELSE "written"

\* trusted_generation_prompt, asked for at the first generator of the request:
\* what a second model selected verbatim, or an excerpt, or the request itself.
\* The prompt of a composed workflow is what the model wrote.
PromptFor(next) ==
  IF composed \/ prompt # "none" THEN next = prompt
  ELSE next \in {"selected", IF call.argument = "excerpt" THEN "excerpt" ELSE "request"}

Given(next) ==
  IF ~composed THEN next
  ELSE IF call.argument = "nothing" THEN "request" ELSE call.argument

\* A generator: its prompt comes first, whether it is enabled or not. One that
\* is, is asked, and may fail.
Generate ==
  /\ Runnable /\ call.tool \in Generators
  /\ PromptFor(prompt')
  /\ \/ /\ call.tool \in enabled
        /\ sources' = sources \cup {<<call.tool, Given(prompt')>>}
        /\ made' = [made EXCEPT ![call.tool] = @ + 1]
        /\ completed' = completed \cup {call.tool}
        /\ ran' = ran \cup {call.tool}
     \/ UNCHANGED artifactVars
  /\ Result
  /\ UNCHANGED <<phase, round, offered, requestVars>>

\* A file, when the arguments name one and hold its content.
SendFile ==
  /\ Runnable /\ call.tool = "send_file"
  /\ \/ /\ "send_file" \in enabled
        /\ made' = [made EXCEPT !["send_file"] = @ + 1]
        /\ ran' = ran \cup {"send_file"}
     \/ UNCHANGED <<made, ran>>
  /\ Result
  /\ UNCHANGED <<phase, round, offered, prompt, completed, sources, requestVars>>

\* A search is run without a look at its switch, a transcription with one.
Informs == call.tool = "web_search" \/ call.tool \in enabled

\* The result of either, or the answer that a name is unknown.
Inform ==
  /\ Runnable /\ call.tool \in {"web_search", "transcribe_audio", "unknown"}
  /\ ran' = IF Informs THEN ran \cup {call.tool} ELSE ran
  /\ Result
  /\ UNCHANGED <<phase, round, offered, prompt, completed, made, sources, requestVars>>

\* Mutant: a single-stage request goes on with what was made.
AfterRoundGoOn ==
  /\ phase = "calling" /\ calls = <<>>
  /\ phase' = IF round = Rounds THEN "failed" ELSE "asking"
  /\ UNCHANGED <<round, offered, calls, owed, prompt, requestVars, artifactVars>>

\* A single-stage request is complete when something was made; else the model is
\* asked again, unless this was the last round.
AfterRound ==
  /\ phase = "calling" /\ calls = <<>>
  /\ phase' = IF ~composed /\ completed # {} THEN "answered"
              ELSE IF round = Rounds THEN "failed" ELSE "asking"
  /\ UNCHANGED <<round, offered, calls, owed, prompt, requestVars, artifactVars>>

Next == Ask \/ AskFails \/ Answer \/ CallTools \/ Skip \/ Generate \/ SendFile \/ Inform \/ AfterRound

Spec == Init /\ [][Next]_vars

-----------------------------------------------------------------------------
(* Properties                                                              *)

\* A generator makes something once in a request, whatever the model calls, in one
\* round or in several (completed_media_tools).
GeneratorsMakeOnce == \A t \in Generators \cap Tool : made[t] <= 1

\* The model is asked only when each of its calls has its result: providers refuse
\* a conversation with a call that has none.
CallsHaveResults == phase \in {"asking", "waiting"} => owed = 0

\* Whatever was made for a single-stage request is delivered: once there is
\* something, the model is not asked again, and nothing fails.
SingleStageDelivers ==
  ~composed /\ completed # {} => phase \in {"calling", "answered"}

\* The words of the model are a generation prompt only in a composed workflow, and
\* all generators of a single-stage request are given one prompt (README.md:123).
PromptsAreTheCallers ==
  ~composed => \A s1, s2 \in sources : s1[2] = s2[2] /\ s1[2] # "written"

\* Tools that are switched off, or have no key, make nothing and are not run,
\* though the model may call what it was not offered; but a search is.
DisabledDoNothing ==
  /\ \A t \in Tool : made[t] > 0 => t \in enabled
  /\ ran \ {"web_search"} \subseteq enabled

\* What is offered to the model could still make something when it is asked for:
\* neither speech nor anything else is offered behind its own artifact.
OffersAreUseful ==
  phase = "waiting" =>
    \A t \in offered \cap Generators : \A n \in Names(t) \cap Tool : made[n] = 0
=============================================================================
