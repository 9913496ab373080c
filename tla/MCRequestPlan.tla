---------------------------- MODULE MCRequestPlan ----------------------------
(***************************************************************************)
(* Instances of RequestPlan: requests with what is enabled and attached,   *)
(* plans that fit them and plans that do not, and selections of which some *)
(* are invented.                                                           *)
(***************************************************************************)
EXTENDS RequestPlan

All == Flag

Asked(words, attached, enabled, override) ==
  [words |-> words, code |-> FALSE, file |-> FALSE, reply |-> TRUE, quote |-> FALSE,
   attached |-> attached, enabled |-> enabled, key |-> TRUE, override |-> override]

Pig == <<"please", "draw", "a", "pig">>

MCRequests ==
  {Asked(words, attached, enabled, "none") :
     words \in {<<>>, <<"pig">>, Pig, <<"make", "photo", "image", "pig">>, <<"please", "draw", "image">>},
     attached \in {{}, {"audio"}},
     enabled \in {All, All \ {"image", "search"}, All \ {"prompt_expansion", "transcription"}}}
  \cup {[Asked(Pig, {}, All, "none") EXCEPT !.key = FALSE],
        [Asked(Pig, {}, All, "generate_music") EXCEPT !.quote = TRUE]}
  \cup {[Asked(<<"make", "a", "pig">>, {}, enabled, "none") EXCEPT !.code = TRUE, !.file = file] :
          enabled \in {All, All \ {"file"}}, file \in BOOLEAN}

Planned(action, skills, steps, delivery) ==
  [action |-> action, skills |-> skills, steps |-> steps, delivery |-> delivery, refusal |-> "empty"]

MCPlans ==
  {Planned("chat", {"search", "speech_generation", "audio_generation"}, <<>>, "file"),
   Planned("generate_image", {"image_generation", "search", "prompt_expansion"}, <<>>, "inline"),
   Planned("chat", {"image_generation"}, <<"compose_text">>, "inline"),
   Planned("generate_music", {"music_generation", "prompt_expansion"}, <<>>, "inline"),
   Planned("generate_vector", {"search"}, <<"search", "vector_generation">>, "inline"),
   Planned("chat", {"search", "image_generation"}, <<"search", "image_generation">>, "inline"),
   Planned("chat", {"search", "three_d_generation"}, <<"search", "three_d_generation">>, "inline"),
   Planned("transcribe", {"transcription"}, <<"transcription">>, "inline"),
   Planned("generate_code", {"generate_code", "file_delivery"}, <<>>, "file"),
   Planned("refuse", {}, <<>>, "inline")}

MCSelections ==
  {[core |-> core, excerpt |-> excerpt, sources |-> sources] :
     core \in {<<0, 0>>, <<1, 4>>, <<2, 3>>, <<4, 4>>}, excerpt \in {"none", "reply", "invented"},
     sources \in {{}, {"current_request"}, {"current_request", "replied_message"},
                  {"telegram_quote", "attachment"}}}

TwoModels == <<"planner", "fallback">>
=============================================================================
