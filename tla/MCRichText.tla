----------------------------- MODULE MCRichText -----------------------------
(***************************************************************************)
(* RichText for all texts of up to four lines out of a set of lines that   *)
(* are shorter and longer than a message.                                  *)
(***************************************************************************)
EXTENDS RichText

L(kind, len) == [kind |-> kind, len |-> len]

MCLines ==
  {L("backticks", 3), L("backticks_info", 4), L("long_backticks", 4), L("tildes", 3),
   L("underline", 3), L("deep_backticks", 7), L("deep_code", 7), L("deep_item", 6),
   L("text", 4), L("text", 18), L("blank", 0)}

MCTexts ==
  {t \in UNION {[1 .. n -> MCLines] : n \in 1 .. 4} : t[Len(t)].kind # "blank"}
=============================================================================
