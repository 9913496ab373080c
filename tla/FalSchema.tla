------------------------------ MODULE FalSchema ------------------------------
(***************************************************************************)
(* How an endpoint of fal.ai that nobody configured becomes usable: from   *)
(* the input schema it publishes, endpoint_from_openapi (fal.rs) derives   *)
(* which field takes the prompt, the media and the geometry of a request,  *)
(* and which values are filled in by default; fal_input (openrouter.rs)    *)
(* builds the input of an order from such a mapping.                       *)
(*                                                                         *)
(* A schema is the set of its fields once references and branches are      *)
(* resolved: which are required, which have a default, which have a list   *)
(* of choices.  Of the names a field may have there are one or two of each *)
(* role, the last one standing for names that are only similar.            *)
(***************************************************************************)
EXTENDS Integers

Role == {"prompt", "image", "video", "audio", "language", "width", "height", "ratio"}
Media == {"image", "video", "audio"}

NoField == "no field"

\* The names a role looks for, in its order of preference.
Names ==
  [prompt |-> <<"prompt", "text_prompt">>, image |-> <<"image_url", "source_image">>,
   video |-> <<"video_url", "input_video">>, audio |-> <<"audio_url", "file_url">>,
   language |-> <<"language", "output_language">>, width |-> <<"width", "image_size.width">>,
   height |-> <<"height", "image_size.height">>, ratio |-> <<"aspect_ratio">>]

\* A field of an object is named by the path to it.
Parent(name) ==
  IF name \in {"image_size.width", "image_size.height"} THEN "image_size" ELSE name

Field ==
  {"prompt", "text_prompt", "image_url", "source_image", "video_url", "input_video", "audio_url",
   "file_url", "language", "output_language", "width", "height", "image_size", "aspect_ratio",
   "num_images", "token"}

Capability ==
  {"text_to_image", "image_to_image", "text_to_video", "image_to_video", "video_to_video",
   "text_to_audio", "video_to_audio", "text_to_speech", "transcription", "text_to_3d",
   "image_to_3d", "text_to_image_vector", "image_to_image_vector", "image_understanding",
   "video_understanding", "image_generation", "video_generation", "speech_generation",
   "music_generation", "audio_generation"}

Schema ==
  [category : STRING, svg : BOOLEAN, fields : SUBSET Field, required : SUBSET Field,
   default : SUBSET Field, choices : SUBSET Field]

Mapping ==
  [capabilities : SUBSET Capability, defaults : SUBSET Field,
   field : [Role -> Field \cup {"image_size.width", "image_size.height", NoField}]]

\* fal_category_capabilities, for the categories in their first spelling.
CategoryCapabilities(category) ==
  CASE category = "text-to-image" -> {"text_to_image"}
    [] category = "image-to-image" -> {"image_to_image"}
    [] category = "text-to-video" -> {"text_to_video"}
    [] category = "image-to-video" -> {"image_to_video"}
    [] category = "video-to-video" -> {"video_to_video"}
    [] category = "text-to-audio" -> {"text_to_audio"}
    [] category = "video-to-audio" -> {"video_to_audio"}
    [] category = "text-to-speech" -> {"text_to_speech"}
    [] category = "speech-to-text" -> {"transcription"}
    [] category = "text-to-3d" -> {"text_to_3d"}
    [] category = "image-to-3d" -> {"image_to_3d"}
    [] category = "text-to-vector" -> {"text_to_image_vector"}
    [] category = "image-to-vector" -> {"image_to_image_vector"}
    [] category = "image-to-text" -> {"image_understanding"}
    [] category = "video-to-text" -> {"video_understanding"}
    [] category = "vision" -> {"image_understanding", "video_understanding"}
    [] OTHER -> {}

\* fal_model_capabilities: an image model that calls itself SVG makes vectors.
AsVector(capability) ==
  CASE capability = "text_to_image" -> "text_to_image_vector"
    [] capability = "image_to_image" -> "image_to_image_vector"
    [] OTHER -> capability

ModelCapabilities(schema) ==
  LET listed == CategoryCapabilities(schema.category)
  IN IF schema.svg THEN {AsVector(c) : c \in listed} ELSE listed

\* find_field and find_media_field
FindField(names, fields) ==
  LET here == {i \in DOMAIN names : Parent(names[i]) \in fields}
  IN IF here = {} THEN NoField ELSE names[CHOOSE i \in here : \A j \in here : i <= j]

\* The medium a capability cannot do without.
Needs(capability) ==
  CASE capability \in {"image_to_image", "image_to_video", "image_to_3d", "image_to_image_vector",
                       "image_understanding"} -> {"image"}
    [] capability \in {"video_to_video", "video_to_audio", "video_understanding"} -> {"video"}
    [] capability = "transcription" -> {"audio"}
    [] OTHER -> {}

NeedsPrompt ==
  {"text_to_image", "text_to_video", "text_to_audio", "text_to_speech", "text_to_3d",
   "text_to_image_vector"}

FieldsOf(schema) == [r \in Role |-> FindField(Names[r], schema.fields)]

Executable(schema) ==
  {c \in ModelCapabilities(schema) : \A r \in Needs(c) : FieldsOf(schema)[r] # NoField}

\* A required field that has no default and that nothing maps is filled with its
\* first choice, or with one image.
Mapped(schema, name) == \E r \in Role : FieldsOf(schema)[r] = name
Chosen(schema) ==
  {name \in schema.required \ schema.default :
     ~Mapped(schema, name) /\ (name \in schema.choices \/ name = "num_images")}

\* Mutant: required fields are not looked at.
DerivableUnseen(schema) ==
  /\ schema.fields # {}
  /\ Executable(schema) # {}
  /\ FieldsOf(schema).prompt = NoField => Executable(schema) \cap NeedsPrompt = {}

\* endpoint_from_openapi fails when this is false.
Derivable(schema) ==
  /\ schema.fields # {}
  /\ Executable(schema) # {}
  /\ FieldsOf(schema).prompt = NoField => Executable(schema) \cap NeedsPrompt = {}
  /\ \A name \in schema.required :
       Mapped(schema, name) \/ name \in schema.default \cup Chosen(schema)

Derived(schema) ==
  [capabilities |-> Executable(schema), defaults |-> schema.default \cup Chosen(schema),
   field |-> FieldsOf(schema)]

-----------------------------------------------------------------------------
(* fal_input: the fields an order fills, and from where.                   *)

\* What a request says decides the rest; a reference does not replace a
\* default (insert_fal_references).
Said(mapping, refs, says) ==
  {r \in (refs \cap Media) \cup (says \cap Role) :
     mapping.field[r] # NoField /\ (r \in Media => mapping.field[r] \notin mapping.defaults)}

Input(mapping, refs, says) ==
  mapping.defaults \cup {Parent(mapping.field[r]) : r \in Said(mapping, refs, says)}
=============================================================================
