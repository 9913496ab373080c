------------------------------ MODULE RichText ------------------------------
(***************************************************************************)
(* A text on its way to Telegram (rich.rs): a model's Markdown is brought  *)
(* into the forms Telegram knows line by line (to_telegram_markdown), what *)
(* is too long is split into pieces that close and reopen a fence of code  *)
(* (chunks), and an answer that does not fit into one message becomes a    *)
(* file (materialize_oversized_text).                                      *)
(*                                                                         *)
(* Of a line only its kind and its length count. A text does not end with  *)
(* an empty line.                                                          *)
(***************************************************************************)
EXTENDS Integers, Sequences

CONSTANTS
  Texts,    \* the texts to be sent
  Safe,     \* SAFE_RICH_CHARS
  Blocks    \* SAFE_BLOCKS

\* A fence is of three backticks, with an info string or bare, of more backticks, or of
\* three tildes; an underline makes a heading of the line before it; a deep line
\* begins with four spaces, and an entry of a list does not start code.
Kind ==
  {"backticks", "backticks_info", "long_backticks", "tildes", "underline",
   "deep_backticks", "deep_code", "deep_item", "text", "blank"}

Line == [kind : Kind, len : Nat]

ASSUME TextAssumption ==
  /\ Texts \subseteq Seq(Line)
  /\ \A t \in Texts : t # <<>> /\ t[Len(t)].kind # "blank"
  /\ \A t \in Texts : \A i \in DOMAIN t :
       /\ t[i].kind = "blank" <=> t[i].len = 0
       /\ t[i].kind \in {"backticks", "backticks_info", "long_backticks", "tildes"} => t[i].len >= 3
       /\ t[i].kind \in {"deep_code", "deep_item"} => t[i].len >= 4
       /\ t[i].kind = "deep_backticks" => t[i].len >= 7
  /\ Safe \in Nat \ {0} /\ Blocks \in Nat \ {0}

VARIABLES
  text,
  stage,      \* "converting", "splitting", "sending", "done"
  at,         \* the line to be converted, then the line to be split
  fenced,     \* converting: in_fence
  run,        \* converting: within a run of indented code
  converted,  \* lines with their length, newline included, and where they are from
  begun,      \* splitting: the line was found to fit behind the others, or not
  col,        \* splitting: characters of the line that are in a piece
  blocks,
  fence,      \* splitting: the length of the open fence's line, 0 if none is open
  piece,      \* current
  pieces,     \* chunks
  sent

textVars == <<text, stage, at, fenced, run, converted, begun, col, blocks, fence, piece, pieces, sent>>

splitter == <<begun, col, blocks, fence, piece, pieces>>

\* A piece holds the characters between two places of the converted text. What is
\* opened in front of it is a line of that length, what mends it three backticks.
Piece == [size : Nat, opened : Nat, from : Nat \X Nat, to : Nat \X Nat, mended : BOOLEAN]

Empty == [size |-> 0, opened |-> 0, from |-> <<0, 0>>, to |-> <<0, 0>>, mended |-> FALSE]

TextTypeOK ==
  /\ text \in Texts /\ stage \in {"converting", "splitting", "sending", "done"}
  /\ at \in Nat /\ col \in Nat /\ blocks \in Nat /\ fence \in Nat
  /\ {fenced, run, begun} \subseteq BOOLEAN
  /\ converted \in Seq([fence : BOOLEAN, len : Nat, source : Nat, asis : BOOLEAN])
  /\ piece \in Piece /\ pieces \in Seq(Piece)
  /\ sent \in [as : {"nothing", "messages", "file"}, count : Nat]

TextInit ==
  /\ text \in Texts /\ stage = "converting" /\ at = 1
  /\ fenced = FALSE /\ run = FALSE /\ converted = <<>>
  /\ begun = FALSE /\ col = 0 /\ blocks = 0 /\ fence = 0 /\ piece = Empty /\ pieces = <<>>
  /\ sent = [as |-> "nothing", count |-> 0]

-----------------------------------------------------------------------------
(* to_telegram_markdown                                                    *)

Deep(kind) == kind \in {"deep_backticks", "deep_code", "deep_item"}

\* Mutant: a fence of tildes is a line like any other.
BackticksOnly(kind) ==
  kind \in {"backticks", "backticks_info", "long_backticks", "deep_backticks"}

IsFence(kind) ==
  kind \in {"backticks", "backticks_info", "long_backticks", "tildes", "deep_backticks"}

\* Every line but the last has a newline behind it.
Lines(new) == converted' = converted \o new
Out(isFence, len, asis) ==
  [fence |-> isFence, len |-> len + 1, source |-> at, asis |-> asis]
Inserted == [fence |-> TRUE, len |-> 4, source |-> 0, asis |-> FALSE]

Converting == stage = "converting" /\ at <= Len(text)

FenceLine ==
  /\ Converting /\ ~run /\ IsFence(text[at].kind)
  /\ Lines(<<Out(TRUE, text[at].len, text[at].kind # "tildes")>>)
  /\ fenced' = ~fenced /\ at' = at + 1
  /\ UNCHANGED <<text, stage, run, splitter, sent>>

CodeLine ==
  /\ Converting /\ ~run /\ fenced /\ ~IsFence(text[at].kind)
  /\ Lines(<<Out(FALSE, text[at].len, TRUE)>>)
  /\ at' = at + 1
  /\ UNCHANGED <<text, stage, fenced, run, splitter, sent>>

Underlined == at < Len(text) /\ text[at].kind # "blank" /\ text[at + 1].kind = "underline"

StartsCode ==
  text[at].kind = "deep_code" /\ (at > 1 => text[at - 1].kind = "blank")

\* What normalize_inline makes of a line is as long here as the line.
Heading ==
  /\ Converting /\ ~run /\ ~fenced /\ ~IsFence(text[at].kind) /\ Underlined
  /\ Lines(<<Out(FALSE, text[at].len + 2, FALSE)>>)
  /\ at' = at + 2
  /\ UNCHANGED <<text, stage, fenced, run, splitter, sent>>

IndentedRunStarts ==
  /\ Converting /\ ~run /\ ~fenced /\ ~Underlined /\ StartsCode
  /\ Lines(<<Inserted>>) /\ run' = TRUE
  /\ UNCHANGED <<text, stage, at, fenced, splitter, sent>>

IndentedLine ==
  /\ Converting /\ run /\ (Deep(text[at].kind) \/ text[at].kind = "blank")
  /\ Lines(<<Out(text[at].kind = "deep_backticks", IF text[at].kind = "blank" THEN 0 ELSE text[at].len - 4, TRUE)>>)
  /\ at' = at + 1
  /\ UNCHANGED <<text, stage, fenced, run, splitter, sent>>

IndentedRunEnds ==
  /\ stage = "converting" /\ run
  /\ at <= Len(text) => ~Deep(text[at].kind) /\ text[at].kind # "blank"
  /\ Lines(<<Inserted>>) /\ run' = FALSE
  /\ UNCHANGED <<text, stage, at, fenced, splitter, sent>>

PlainLine ==
  /\ Converting /\ ~run /\ ~fenced /\ ~IsFence(text[at].kind) /\ ~Underlined /\ ~StartsCode
  /\ Lines(<<Out(FALSE, text[at].len, FALSE)>>)
  /\ at' = at + 1
  /\ UNCHANGED <<text, stage, fenced, run, splitter, sent>>

SizeUpTo[n \in 0 .. Len(converted)] == IF n = 0 THEN 0 ELSE converted[n].len + SizeUpTo[n - 1]
Size == SizeUpTo[Len(converted)]

\* Mutant: the lines are not counted.
FitsInCharacters == Size <= Safe

FitsSingleMessage == Size <= Safe /\ Len(converted) <= Blocks

Converted ==
  /\ stage = "converting" /\ at > Len(text) /\ ~run
  /\ converted' = [converted EXCEPT ![Len(converted)].len = @ - 1]
  /\ stage' = "splitting" /\ at' = 1
  /\ UNCHANGED <<text, fenced, run, splitter, sent>>

-----------------------------------------------------------------------------
(* chunks                                                                  *)

Opening == [Empty EXCEPT !.size = IF fence > 0 THEN fence + 1 ELSE 0, !.opened = fence]

\* The piece as it is handed over: where a fence is open, the literal "```" and a
\* newline are added, of whatever length the fence is.
Mended == IF fence > 0 THEN [piece EXCEPT !.size = @ + 4, !.mended = TRUE] ELSE piece

Repair == IF fence > 0 THEN 4 ELSE 0

With(p, place) ==
  [p EXCEPT !.size = @ + 1, !.to = place, !.from = IF @ = <<0, 0>> THEN place ELSE @]

Splitting == stage = "splitting" /\ (at > 1 \/ begun \/ ~(Size <= Safe /\ Len(converted) <= Blocks))

OnePiece ==
  /\ stage = "splitting" /\ ~Splitting
  /\ pieces' = <<[Empty EXCEPT !.size = Size, !.from = <<1, 1>>,
                              !.to = <<Len(converted), converted[Len(converted)].len>>]>>
  /\ stage' = "sending"
  /\ UNCHANGED <<text, at, fenced, run, converted, begun, col, blocks, fence, piece, sent>>

\* Mutant: a piece has as many lines as fit.
StartLineAnyBlocks ==
  /\ Splitting /\ ~begun /\ at <= Len(converted)
  /\ begun' = TRUE
  /\ IF piece.size > 0 /\ piece.size + converted[at].len + Repair > Safe
     THEN pieces' = Append(pieces, Mended) /\ piece' = Opening /\ blocks' = 0
     ELSE UNCHANGED <<pieces, piece, blocks>>
  /\ UNCHANGED <<text, stage, at, fenced, run, converted, col, fence, sent>>

StartLine ==
  /\ Splitting /\ ~begun /\ at <= Len(converted)
  /\ begun' = TRUE
  /\ IF piece.size > 0 /\ (piece.size + converted[at].len + Repair > Safe \/ blocks >= Blocks)
     THEN pieces' = Append(pieces, Mended) /\ piece' = Opening /\ blocks' = 0
     ELSE UNCHANGED <<pieces, piece, blocks>>
  /\ UNCHANGED <<text, stage, at, fenced, run, converted, col, fence, sent>>

\* Mutant: a piece that begins within a line does not open the fence again.
PushCharacterBare ==
  /\ Splitting /\ begun /\ col < converted[at].len
  /\ IF piece.size + Repair >= Safe
     THEN pieces' = Append(pieces, Mended) /\ piece' = With(Empty, <<at, col + 1>>)
     ELSE piece' = With(piece, <<at, col + 1>>) /\ UNCHANGED pieces
  /\ col' = col + 1
  /\ UNCHANGED <<text, stage, at, fenced, run, converted, begun, blocks, fence, sent>>

PushCharacter ==
  /\ Splitting /\ begun /\ col < converted[at].len
  /\ IF piece.size + Repair >= Safe
     THEN pieces' = Append(pieces, Mended) /\ piece' = With(Opening, <<at, col + 1>>)
     ELSE piece' = With(piece, <<at, col + 1>>) /\ UNCHANGED pieces
  /\ col' = col + 1
  /\ UNCHANGED <<text, stage, at, fenced, run, converted, begun, blocks, fence, sent>>

EndLine ==
  /\ Splitting /\ begun /\ col = converted[at].len
  /\ blocks' = blocks + 1
  /\ fence' = IF ~converted[at].fence THEN fence
              ELSE IF fence > 0 THEN 0 ELSE converted[at].len - 1
  /\ begun' = FALSE /\ col' = 0 /\ at' = at + 1
  /\ UNCHANGED <<text, stage, fenced, run, converted, piece, pieces, sent>>

LastPiece ==
  /\ Splitting /\ ~begun /\ at > Len(converted)
  /\ pieces' = IF piece.size > 0 THEN Append(pieces, Mended) ELSE pieces
  /\ stage' = "sending"
  /\ UNCHANGED <<text, at, fenced, run, converted, begun, col, blocks, fence, piece, sent>>

-----------------------------------------------------------------------------
(* Sending                                                                 *)

\* A result of a guest's question is one message: the first piece.
Messages(mode) == [as |-> "messages", count |-> IF mode = "guest" THEN 1 ELSE Len(pieces)]

\* An answer of the assistant that made nothing else.
SendAnswer(mode) ==
  /\ stage = "sending"
  /\ sent' = IF FitsSingleMessage THEN Messages(mode) ELSE [as |-> "file", count |-> 1]
  /\ stage' = "done"
  /\ UNCHANGED <<text, at, fenced, run, converted, splitter>>

\* Any other text for a chat: send_rich sends piece after piece.
SendPieces ==
  /\ stage = "sending"
  /\ sent' = Messages("chat")
  /\ stage' = "done"
  /\ UNCHANGED <<text, at, fenced, run, converted, splitter>>

Done == stage = "done" /\ UNCHANGED textVars

TextNext ==
  \/ FenceLine \/ CodeLine \/ Heading \/ PlainLine
  \/ IndentedRunStarts \/ IndentedLine \/ IndentedRunEnds \/ Converted
  \/ OnePiece \/ StartLine \/ PushCharacter \/ EndLine \/ LastPiece
  \/ \E mode \in {"chat", "guest"} : SendAnswer(mode)
  \/ SendPieces \/ Done

TextSpec == TextInit /\ [][TextNext]_textVars

-----------------------------------------------------------------------------
(* Properties                                                              *)

\* How a reader of Markdown goes on behind a line, by CommonMark: a fence is closed by a
\* bare one of its own kind that is as long as it, or longer.
Closes(kind, open) == kind = open \/ (kind = "long_backticks" /\ open = "backticks")

Behind(open, kind) ==
  CASE open = "none" /\ kind \in {"backticks", "backticks_info"} -> "backticks"
    [] open = "none" /\ kind \in {"long_backticks", "tildes"} -> kind
    [] open # "none" /\ Closes(kind, open) -> "none"
    [] OTHER -> open

\* The fence that is open in front of each of some lines, and behind the last.
Reading(count, kinds) ==
  LET open[i \in 1 .. count + 1] ==
        IF i = 1 THEN "none" ELSE Behind(open[i - 1], kinds[i - 1])
  IN  open

OpenFence == Reading(Len(text), [i \in 1 .. Len(text) |-> text[i].kind])

\* Nothing that looks like another fence stands in code.
Plain ==
  \A i \in DOMAIN text :
    /\ text[i].kind # "deep_backticks"
    /\ OpenFence[i] # "none" /\ IsFence(text[i].kind) => Closes(text[i].kind, OpenFence[i])

\* How many fences of the converted text the program takes for open in front of a line:
\* every line that looks like a fence opens or closes one.
Open[i \in 1 .. Len(converted) + 1] ==
  IF i = 1 THEN 0 ELSE IF converted[i - 1].fence THEN 1 - Open[i - 1] ELSE Open[i - 1]

Inside(i) == Open[i] = 1

\* The fences of the converted text as a reader sees them: tildes have become
\* backticks, and so are the lines around an indented run.
KindIn(line) ==
  IF ~line.fence THEN "text"
  ELSE IF line.source = 0 \/ text[line.source].kind = "tildes" THEN "backticks"
  ELSE text[line.source].kind

Read == Reading(Len(converted), [i \in 1 .. Len(converted) |-> KindIn(converted[i])])

\* "Code content is never rewritten" (rich.rs): what stands in a fence is kept
\* as it is and in place, and it is still in a fence; what does not is
\* normalized. Of code that shows fences of its own this is not so.
CodeIsKept ==
  Plain /\ stage # "converting" =>
    \A i \in DOMAIN text : OpenFence[i] # "none" /\ ~IsFence(text[i].kind) =>
      \E j \in DOMAIN converted :
        /\ converted[j].source = i /\ converted[j].asis /\ ~converted[j].fence
        /\ Inside(j)

\* There is room in a message for a line that opens a fence, one that closes it, and
\* the repair.
ShortFences ==
  \A i, j \in DOMAIN converted :
    converted[i].fence /\ converted[j].fence => converted[i].len + converted[j].len + 4 <= Safe

\* Every line that looks like a fence is one of three backticks, and what has an info
\* string opens one.
OrdinaryFences ==
  \A i \in DOMAIN converted : converted[i].fence =>
    /\ KindIn(converted[i]) \in {"backticks", "backticks_info"}
    /\ KindIn(converted[i]) = "backticks_info" => Read[i] = "none"

InOrder(p, q) ==
  \/ q.from = <<p.to[1], p.to[2] + 1>> /\ p.to[2] < converted[p.to[1]].len
  \/ q.from = <<p.to[1] + 1, 1>> /\ p.to[2] = converted[p.to[1]].len

StandsAlone(p) ==
  LET from == p.from[1]
      to   == p.to[1]
      torn == p.to[2] < converted[to].len
  IN /\ p.opened > 0 <=> Read[from] # "none"
     /\ (IF torn THEN Read[to] ELSE Read[to + 1]) = IF p.mended THEN "backticks" ELSE "none"
     /\ torn => ~converted[to].fence

\* The pieces hold the whole text in its order, and each can be read alone ("keeping each
\* fenced-code chunk independently parseable", rich.rs): a piece opens a fence exactly
\* if a reader finds its first character in one, and the three backticks behind it close
\* the one that a reader finds open behind its last; no line of a fence is torn. This is
\* so of fences of three backticks: a longer one is opened again, but three do not close
\* it, and what only looks like a fence makes the program open and close none.
PiecesStandAlone ==
  ShortFences /\ OrdinaryFences /\ stage \in {"sending", "done"} /\ Len(pieces) > 1 =>
    /\ pieces[1].from = <<1, 1>>
    /\ pieces[Len(pieces)].to = <<Len(converted), converted[Len(converted)].len>>
    /\ \A i \in 1 .. Len(pieces) - 1 : InOrder(pieces[i], pieces[i + 1])
    /\ \A i \in DOMAIN pieces : StandsAlone(pieces[i])

LinesOf(p) ==
  (IF p.opened > 0 THEN 1 ELSE 0) + (p.to[1] - p.from[1] + 1) + (IF p.mended THEN 1 ELSE 0)

\* No piece is longer than a message may be. The limits leave room for the line
\* that closes a fence (4 characters) and for the two lines of a repair.
PiecesFit ==
  ShortFences =>
    \A i \in DOMAIN pieces : pieces[i].size <= Safe + 4 /\ LinesOf(pieces[i]) <= Blocks + 2

\* An answer that made nothing else is never cut off "instead of silently truncating
\* guest-mode output" (rich.rs): it is one whole message or a file.
AnswersAreWhole == stage = "done" => sent.as = "file" \/ sent.count = Len(pieces)
=============================================================================
