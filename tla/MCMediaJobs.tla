----------------------------- MODULE MCMediaJobs -----------------------------
(* Small instances of the media generators for TLC.                        *)
EXTENDS MediaJobs, TLC

CONSTANTS c1, c2

Everything == Role \ Media

From(kind, provider, refs, model) ==
  [kind |-> kind, provider |-> provider, refs |-> refs, says |-> {"prompt"}, model |-> model]

Takes1(category, fields) ==
  [category |-> category, svg |-> FALSE, fields |-> fields, required |-> {}, default |-> {},
   choices |-> {}]

pictures == Takes1("text-to-image", {"prompt", "image_url"})
clips    == Takes1("image-to-video", {"prompt", "image_url"})
voices   == Takes1("speech-to-text", {"audio_url"})
sounds   == Takes1("text-to-speech", {"prompt"})

\* An override for transcription that names no audio field, one for videos of
\* any kind, and one for speech and music.
Overridden(capability) ==
  [capabilities |-> {capability}, defaults |-> {}, field |-> [r \in Role |-> NoField]]

MCConfigured ==
  voices :> Overridden("transcription") @@ clips :> Overridden("video_generation")
    @@ sounds :> Overridden("audio_generation")

\* Every protocol and every refusal, next to a video of either provider.
OneOf ==
  {From("video", "fal", {"image"}, clips), From("video", "openrouter", {}, clips),
   From("image", "fal", {}, pictures), From("image", "aihub", {"image"}, pictures),
   From("image", "openrouter", {}, pictures), From("speech", "fal", {}, pictures),
   From("music", "aihub", {}, voices), From("description", "openrouter", {"video"}, voices),
   From("solid", "fal", {}, NoModel), From("speech", "fal", {}, sounds),
   From("transcription", "fal", {"audio"}, voices)}

Protocols ==
  {c1 :> a @@ c2 :> b : a \in OneOf, b \in {From("video", "fal", {"image"}, clips),
                                           From("video", "openrouter", {}, clips)}}

\* Schemas of three categories with one field x besides those of the category,
\* each of which may be required, and x with a default or with choices.
Schemas ==
  UNION {{[category |-> category, svg |-> category = "text-to-image" /\ x = "token",
           fields |-> base \cup {x}, required |-> required,
           default |-> filled[1], choices |-> filled[2]] :
            base \in {{"prompt"}, {"prompt", "image_url"}, {"file_url"}},
            required \in {{x}, {x, "prompt"}, {x, "file_url", "image_url"}},
            filled \in {<<{}, {}>>, <<{x}, {}>>, <<{}, {x}>>},
            category \in {"text-to-image", "image-to-video", "speech-to-text"}} :
         x \in {"output_language", "width", "image_size", "aspect_ratio", "num_images", "token",
                "source_image", "text_prompt"}}

KindOf(schema) ==
  CASE schema.category = "image-to-video" -> "video"
    [] schema.category = "speech-to-text" -> "transcription"
    [] schema.svg -> "vector"
    [] OTHER -> "image"

RefsOf(schema) ==
  CASE schema.category = "image-to-video" -> {"image"}
    [] schema.category = "speech-to-text" -> {"audio"}
    [] OTHER -> {}

\* Every schema, and a second call that ends at once.
Discoveries ==
  {c1 :> [kind |-> KindOf(s), provider |-> "fal", refs |-> RefsOf(s), says |-> says, model |-> s]
     @@ c2 :> From("music", "aihub", {}, NoModel) :
     s \in {t \in Schemas : t.required \subseteq t.fields}, says \in {{}, {"prompt"}, Everything}}

MCAsks == Protocols \cup Discoveries
MCEndpoint == Schemas \cup {pictures, clips, voices, sounds}
MCPublished == [e \in MCEndpoint |-> e]
=============================================================================
