---------------------------- MODULE SkillSwitches ----------------------------
(***************************************************************************)
(* The skill switches of a bot and its custom content, as the admin panel  *)
(* changes them: single switches, the older switches for a whole group of  *)
(* media skills, custom text, and skill bundles that are exported and      *)
(* imported again.                                                         *)
(*                                                                         *)
(* set_capability and set_custom_content run under the store's mutation    *)
(* lock and are one step here.  An import, and the disabling of a text,    *)
(* read the settings first and write later, and others may write between.  *)
(* A form that is refused (no key, unknown id, bad JSON) changes nothing.  *)
(***************************************************************************)
EXTENDS Naturals

CONSTANTS
  Skill,      \* the ids of BUILTIN_SKILLS
  Group,      \* the older media switches: image, audio, music, video, media
  Members,    \* the skills of each group; the others have a plain switch
  Kind,       \* kinds of custom content: "prompt" and "skills"
  Text,       \* custom texts
  None,       \* no custom text
  Admin       \* open forms that read before they write

Grouped == {s \in Skill : \E g \in Group : s \in Members[g]}

ASSUME SwitchAssumption ==
  /\ Members \in [Group -> SUBSET Skill]
  /\ "skills" \in Kind
  /\ None \notin Text

VARIABLES
  oldIds,   \* whether group identifiers are still sent to this bot
  caps,     \* settings.capabilities
  content,  \* settings.custom_*: a text and whether it is enabled
  bundle,   \* the last bundle exported
  pc,       \* what each form is at
  draft,    \* its copy of the settings, or the text it read
  todo      \* the entries of the bundle it has not set yet

vars == <<oldIds, caps, content, bundle, pc, draft, todo>>

Custom == [text : Text \cup {None}, on : BOOLEAN]
Capabilities ==
  {c \in [group : [Group -> BOOLEAN], own : [Skill -> {"inherit", "on", "off"}]] :
     \A s \in Skill \ Grouped : c.own[s] # "inherit"}
Bundle == [on : SUBSET Skill, custom : Custom]
Draft  == [caps : Capabilities, content : [Kind -> Custom], bundle : Bundle,
           kind : Kind, text : Text \cup {None}]

TypeOK ==
  /\ oldIds \in BOOLEAN
  /\ caps \in Capabilities
  /\ content \in [Kind -> Custom]
  /\ bundle \in Bundle
  /\ pc \in [Admin -> {"idle", "importing", "disabling"}]
  /\ draft \in [Admin -> Draft]
  /\ todo \in [Admin -> SUBSET Skill]

-----------------------------------------------------------------------------
(* Capabilities                                                            *)

\* A skill's own switch, under the switches of its groups.
Enabled(c, s) == c.own[s] # "off" /\ \A g \in Group : s \in Members[g] => c.group[g]

Offered(c) == {s \in Skill : Enabled(c, s)}

Switch(on) == IF on THEN "on" ELSE "off"

\* Mutant: the others of the group are not pinned when it is switched on.
PinnedNone(c, s) == c.own

\* enable_*_overrides: before a group that is off is switched on for s, its
\* members without a switch of their own are switched off.
Pinned(c, s) ==
  [t \in Skill |->
     IF /\ c.own[t] = "inherit"
        /\ \E g \in Group : {s, t} \subseteq Members[g] /\ ~c.group[g]
     THEN "off" ELSE c.own[t]]

\* Mutant: the group stays as it is.
GroupsAsTheyAre(c, s) == c.group

GroupsFor(c, s) == [g \in Group |-> c.group[g] \/ s \in Members[g]]

\* set with the identifier of a skill, and of a group.
Set(c, s, on) ==
  [group |-> GroupsFor(c, s), own |-> [Pinned(c, s) EXCEPT ![s] = Switch(on)]]
SetGroup(c, g, on) == [c EXCEPT !.group[g] = on]

-----------------------------------------------------------------------------

NoText == [text |-> None, on |-> FALSE]

\* Capabilities::default
AllOn ==
  [group |-> [g \in Group |-> TRUE],
   own   |-> [s \in Skill |-> IF s \in Grouped THEN "inherit" ELSE "on"]]

NoBundle == [on |-> Skill, custom |-> NoText]
NoDraft  == [caps |-> AllOn, content |-> [k \in Kind |-> NoText], bundle |-> NoBundle,
             kind |-> "skills", text |-> None]

\* A record saved by this version, or by one that knew only the groups.
Init ==
  /\ oldIds \in BOOLEAN
  /\ \E groups \in [Group -> BOOLEAN], plain \in [Skill -> {"on", "off"}] :
       caps = [group |-> groups,
               own |-> [s \in Skill |-> IF s \in Grouped THEN "inherit" ELSE plain[s]]]
  /\ content = [k \in Kind |-> NoText]
  /\ bundle = NoBundle
  /\ pc = [a \in Admin |-> "idle"]
  /\ draft = [a \in Admin |-> NoDraft]
  /\ todo = [a \in Admin |-> {}]

SwitchSkill(s, on) ==
  /\ caps' = Set(caps, s, on)
  /\ UNCHANGED <<oldIds, content, bundle, pc, draft, todo>>

SwitchGroup(g, on) ==
  /\ oldIds
  /\ caps' = SetGroup(caps, g, on)
  /\ UNCHANGED <<oldIds, content, bundle, pc, draft, todo>>

SaveContent(k, t) ==
  /\ content' = [content EXCEPT ![k] = [text |-> t, on |-> TRUE]]
  /\ UNCHANGED <<oldIds, caps, bundle, pc, draft, todo>>

ResetContent(k) ==
  /\ content' = [content EXCEPT ![k] = NoText]
  /\ UNCHANGED <<oldIds, caps, bundle, pc, draft, todo>>

\* "Disable custom" reads the text in order to write it back.
BeginDisable(a, k) ==
  /\ pc[a] = "idle"
  /\ pc' = [pc EXCEPT ![a] = "disabling"]
  /\ draft' = [draft EXCEPT ![a].kind = k, ![a].text = content[k].text]
  /\ UNCHANGED <<oldIds, caps, content, bundle, todo>>

\* The form is answered, and its copies are gone.
Answer(a) ==
  /\ pc' = [pc EXCEPT ![a] = "idle"]
  /\ draft' = [draft EXCEPT ![a] = NoDraft]
  /\ todo' = [todo EXCEPT ![a] = {}]

Disable(a) ==
  /\ pc[a] = "disabling"
  /\ content' = [content EXCEPT ![draft[a].kind] = [text |-> draft[a].text, on |-> FALSE]]
  /\ Answer(a)
  /\ UNCHANGED <<oldIds, caps, bundle>>

Export ==
  /\ bundle' = [on |-> Offered(caps), custom |-> content["skills"]]
  /\ UNCHANGED <<oldIds, caps, content, pc, draft, todo>>

\* import_skill_bundle: clone the settings, set each built-in and the custom
\* skills, then save the whole record.
BeginImport(a) ==
  /\ pc[a] = "idle"
  /\ pc' = [pc EXCEPT ![a] = "importing"]
  /\ draft' = [draft EXCEPT ![a].caps = caps, ![a].content = content, ![a].bundle = bundle]
  /\ todo' = [todo EXCEPT ![a] = Skill]
  /\ UNCHANGED <<oldIds, caps, content, bundle>>

\* Mutant: skills the bundle lists as off are passed over.
ImportSkillIfOn(a, s) ==
  /\ pc[a] = "importing" /\ s \in todo[a]
  /\ todo' = [todo EXCEPT ![a] = @ \ {s}]
  /\ draft' = [draft EXCEPT ![a].caps = IF s \in draft[a].bundle.on THEN Set(@, s, TRUE) ELSE @]
  /\ UNCHANGED <<oldIds, caps, content, bundle, pc>>

ImportSkill(a, s) ==
  /\ pc[a] = "importing" /\ s \in todo[a]
  /\ todo' = [todo EXCEPT ![a] = @ \ {s}]
  /\ draft' = [draft EXCEPT ![a].caps = Set(@, s, s \in draft[a].bundle.on)]
  /\ UNCHANGED <<oldIds, caps, content, bundle, pc>>

SaveImport(a) ==
  /\ pc[a] = "importing" /\ todo[a] = {}
  /\ caps' = draft[a].caps
  /\ content' = [draft[a].content EXCEPT !["skills"] = draft[a].bundle.custom]
  /\ Answer(a)
  /\ UNCHANGED <<oldIds, bundle>>

\* The store fails, or the connection is closed before the write.
GiveUp(a) ==
  /\ pc[a] # "idle"
  /\ Answer(a)
  /\ UNCHANGED <<oldIds, caps, content, bundle>>

Next ==
  \/ \E on \in BOOLEAN : \/ \E s \in Skill : SwitchSkill(s, on)
                         \/ \E g \in Group : SwitchGroup(g, on)
  \/ \E k \in Kind : \/ \E t \in Text : SaveContent(k, t)
                     \/ ResetContent(k)
                     \/ \E a \in Admin : BeginDisable(a, k)
  \/ Export
  \/ \E a \in Admin : \/ Disable(a) \/ BeginImport(a) \/ SaveImport(a) \/ GiveUp(a)
                      \/ \E s \in Skill : ImportSkill(a, s)

Spec == Init /\ [][Next]_vars

-----------------------------------------------------------------------------
(* Properties                                                              *)

\* An import brings back the toggles and the custom text as they were exported,
\* whatever was switched since, in whatever order the bundle lists the skills,
\* and although it works on a copy that may be out of date
\* (import_skill_bundle; README.md:30).
ImportRestores ==
  [][\A a \in Admin :
       SaveImport(a) => /\ Offered(caps') = draft[a].bundle.on
                        /\ content'["skills"] = draft[a].bundle.custom]_vars

\* A switch takes effect, and no other skill is offered or withdrawn with it:
\* switching skills one by one, starting from a record that knows only groups,
\* never moves another skill (Capabilities::set, enable_*_overrides).  Where the
\* identifiers of groups are sent as well it does: a skill switched on before its
\* group was switched off comes back with another member of the group.
SwitchesAreIndependent ==
  [][\A s \in Skill, on \in BOOLEAN :
       ~oldIds /\ SwitchSkill(s, on) =>
         Offered(caps') = IF on THEN Offered(caps) \cup {s} ELSE Offered(caps) \ {s}]_vars
=============================================================================
