--------------------------- MODULE PromptEnvelope ---------------------------
(***************************************************************************)
(* The words of a generation prompt (openrouter.rs): which excerpts of the *)
(* caller's texts a planner may select, what they make up, and how the     *)
(* words that only ask for a picture or a song are taken off.              *)
(*                                                                         *)
(* A text is a sequence of words, and of a word only its kind counts: a    *)
(* polite word ("please"), a directive that implies a style ("draw") or    *)
(* not ("make"), an article ("a"), the name of a medium ("image"), a word  *)
(* for a style ("photo"), or what the prompt is about ("pig").             *)
(***************************************************************************)
EXTENDS Integers, Sequences

Word == {"please", "draw", "make", "a", "image", "photo", "pig"}

\* What inferred_visual_style and the text replied to add to a prompt, and a
\* prompt that a model wrote.
Style == "style"
Quoted == "quoted"
Rewritten == "rewritten"

Source == {"current_request", "replied_message", "telegram_quote", "attachment"}

\* A selection: the interval of the request's words that is its core, where the
\* excerpt of the other text is found, and which texts to use.
Selection ==
  [core : Int \X Int, excerpt : {"none", "reply", "quote", "both", "invented"},
   sources : SUBSET Source]

\* exact_excerpt
InText(core, text) == 1 <= core[1] /\ core[1] <= core[2] /\ core[2] <= Len(text)
InReply(selection, request) == request.reply /\ selection.excerpt \in {"reply", "both"}
InQuote(selection, request) == request.quote /\ selection.excerpt \in {"quote", "both"}

\* GenerationPromptSelection::validate, validate_generation_prompt_selection
Valid(selection, request) ==
  /\ selection.sources # {}
  /\ "current_request" \in selection.sources => InText(selection.core, request.words)
  /\ "telegram_quote" \in selection.sources => InQuote(selection, request)
  /\ "replied_message" \in selection.sources => InReply(selection, request)

\* effective_generation_prompt
CorePart(selection, request) ==
  IF "current_request" \in selection.sources /\ InText(selection.core, request.words)
  THEN SubSeq(request.words, selection.core[1], selection.core[2])
  ELSE <<>>

ReplyPart(selection, request) ==
  IF \/ "telegram_quote" \in selection.sources /\ InQuote(selection, request)
     \/ /\ "telegram_quote" \notin selection.sources
        /\ "replied_message" \in selection.sources /\ InReply(selection, request)
  THEN <<Quoted>> ELSE <<>>

EffectivePrompt(selection, request) ==
  LET selected == CorePart(selection, request) \o ReplyPart(selection, request)
  IN IF selected = <<>> THEN request.words ELSE selected

-----------------------------------------------------------------------------
(* strip_creation_directive                                                *)

Holds(words, word) == \E i \in DOMAIN words : words[i] = word
InWords(part, words) ==
  \E i, j \in DOMAIN words : i <= j /\ part = SubSeq(words, i, j)

Polite(word) == word = "please"
Directive(word) == word \in {"draw", "make"}
GenericMedium(tool, word) == word = "image" /\ tool \in {"image", "vector"}
Envelope(tool, word) == Polite(word) \/ word = "a" \/ GenericMedium(tool, word)

\* The number of words of a kind at the front of s.
Leading(s, kinds) ==
  CHOOSE n \in 0 .. Len(s) :
    /\ \A i \in 1 .. n : s[i] \in kinds
    /\ n < Len(s) => s[n + 1] \notin kinds

PoliteWords == {w \in Word : Polite(w)}

WithStyle(tool, words, implied) ==
  IF tool = "image" /\ implied /\ ~Holds(words, "photo") THEN Append(words, Style) ELSE words

\* apply_request_visual_style: the request's own directive may be outside the
\* selected words.
RequestStyle(tool, words, request) ==
  LET first == Leading(request.words, PoliteWords) + 1
  IN WithStyle(tool, words, /\ InWords(words, request.words)
                            /\ first <= Len(request.words) /\ request.words[first] = "draw")

\* Mutant: a medium of any kind belongs to the envelope, and so does its style.
StripAll(tool, words, request) ==
  SelectSeq(words, LAMBDA w : ~Directive(w) /\ ~Envelope("image", w) /\ w # "photo")

StripDirective(tool, words, request) ==
  LET first  == Leading(words, PoliteWords) + 1
      rest   == SubSeq(words, first + 1, Len(words))
      inFront == {w \in Word : Envelope(tool, w)}
      behind == SubSeq(rest, Leading(rest, inFront) + 1, Len(rest))
  IN CASE request.attached # {} -> words
       [] request.attached = {} /\ (Len(words) < 2 \/ first > Len(words)) ->
            RequestStyle(tool, words, request)
       [] OTHER -> IF ~Directive(words[first]) THEN RequestStyle(tool, words, request)
                   ELSE IF behind = <<>> THEN words
                   ELSE WithStyle(tool, behind, words[first] = "draw")
=============================================================================
