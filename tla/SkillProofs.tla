----------------------------- MODULE SkillProofs -----------------------------
(***************************************************************************)
(* Which skills are on and what a request may do with them. Proofs about   *)
(* SkillSwitches: what Set does to a record of capabilities, the type      *)
(* invariant, that an import restores what was exported, and that switches *)
(* are independent while the identifiers of groups are not used. Proofs    *)
(* about RequestPlan: nothing is done that is switched off, looks are not  *)
(* made up, and a prompt that no model wrote anew is the caller's.         *)
(***************************************************************************)
EXTENDS SkillSwitches, RequestPlan, FiniteSetTheorems, SequenceTheorems, WellFoundedInduction, TLAPS

-----------------------------------------------------------------------------
(* What Set does                                                           *)

\* Setting a switch yields a well-formed record again.
LEMMA SetType ==
  ASSUME NEW c \in Capabilities, NEW s \in Skill, NEW on \in BOOLEAN
  PROVE  Set(c, s, on) \in Capabilities
  BY SwitchAssumption DEF Set, Pinned, GroupsFor, Switch, Capabilities, Grouped

\* A group's own switch leaves the skills' switches alone.
LEMMA SetGroupType ==
  ASSUME NEW c \in Capabilities, NEW g \in Group, NEW on \in BOOLEAN
  PROVE  SetGroup(c, g, on) \in Capabilities
  BY DEF SetGroup, Capabilities

\* The skill that is set gets its switch and the groups it needs.
LEMMA SetTakesEffect ==
  ASSUME NEW c \in Capabilities, NEW s \in Skill, NEW on \in BOOLEAN
  PROVE  /\ Set(c, s, on).own[s] = Switch(on)
         /\ \A g \in Group : s \in Members[g] => Set(c, s, on).group[g]
  BY SwitchAssumption DEF Set, Pinned, GroupsFor, Switch, Capabilities

\* A skill with a switch of its own keeps it, and no group is switched off.
LEMMA SetKeepsSwitches ==
  ASSUME NEW c \in Capabilities, NEW s \in Skill, NEW on \in BOOLEAN,
         NEW t \in Skill, t # s
  PROVE  /\ Set(c, s, on).own[t] \in {c.own[t], "off"}
         /\ c.own[t] # "inherit" => Set(c, s, on).own[t] = c.own[t]
         /\ \A g \in Group : c.group[g] => Set(c, s, on).group[g]
  BY SwitchAssumption DEF Set, Pinned, GroupsFor, Capabilities

-----------------------------------------------------------------------------
(* Types                                                                   *)

LEMMA InitialRecords ==
  /\ NoText \in Custom
  /\ AllOn \in Capabilities
  /\ NoBundle \in Bundle
  /\ NoDraft \in Draft
<1>1. NoText \in Custom
  BY DEF NoText, Custom
<1>2. AllOn \in Capabilities
  BY DEF AllOn, Capabilities, Grouped
<1>3. NoBundle \in Bundle
  BY <1>1 DEF NoBundle, Bundle
<1>4. NoDraft \in Draft
  BY <1>1, <1>2, <1>3, SwitchAssumption DEF NoDraft, Draft
<1> QED BY <1>1, <1>2, <1>3, <1>4

\* What an answered form leaves behind is well typed.
LEMMA AnswerType ==
  ASSUME TypeOK, NEW a \in Admin, Answer(a)
  PROVE  /\ pc' \in [Admin -> {"idle", "importing", "disabling"}]
         /\ draft' \in [Admin -> Draft]
         /\ todo' \in [Admin -> SUBSET Skill]
  BY InitialRecords DEF TypeOK, Answer

THEOREM TypeInvariant == Spec => []TypeOK
<1>1. Init => TypeOK
  <2> SUFFICES ASSUME Init PROVE TypeOK
    OBVIOUS
  <2>1. caps \in Capabilities
    <3>1. PICK groups \in [Group -> BOOLEAN], plain \in [Skill -> {"on", "off"}] :
            caps = [group |-> groups,
                    own |-> [s \in Skill |-> IF s \in Grouped THEN "inherit" ELSE plain[s]]]
      BY DEF Init
    <3> QED BY <3>1 DEF Capabilities
  <2> QED
    BY <2>1, InitialRecords DEF Init, TypeOK
<1>2. TypeOK /\ [Next]_vars => TypeOK'
  <2> SUFFICES ASSUME TypeOK, [Next]_vars PROVE TypeOK'
    OBVIOUS
  <2>1. CASE \E s \in Skill, on \in BOOLEAN : SwitchSkill(s, on)
    BY <2>1, SetType DEF TypeOK, SwitchSkill
  <2>2. CASE \E g \in Group, on \in BOOLEAN : SwitchGroup(g, on)
    BY <2>2, SetGroupType DEF TypeOK, SwitchGroup
  <2>3. CASE \E k \in Kind, t \in Text : SaveContent(k, t)
    BY <2>3 DEF TypeOK, SaveContent, Custom
  <2>4. CASE \E k \in Kind : ResetContent(k)
    BY <2>4, InitialRecords DEF TypeOK, ResetContent
  <2>5. ASSUME NEW a \in Admin, NEW k \in Kind, BeginDisable(a, k)
        PROVE  TypeOK'
    BY <2>5 DEF TypeOK, BeginDisable, Draft, Custom
  <2>6. ASSUME NEW a \in Admin, Disable(a)
        PROVE  TypeOK'
    <3>1. content' \in [Kind -> Custom]
      BY <2>6 DEF TypeOK, Disable, Draft, Custom
    <3> QED BY <3>1, <2>6, AnswerType DEF TypeOK, Disable
  <2>7. CASE Export
    <3>1. Offered(caps) \subseteq Skill
      BY DEF Offered
    <3> QED BY <2>7, <3>1, SwitchAssumption DEF TypeOK, Export, Bundle
  <2>8. ASSUME NEW a \in Admin, BeginImport(a)
        PROVE  TypeOK'
    BY <2>8 DEF TypeOK, BeginImport, Draft
  <2>9. ASSUME NEW a \in Admin, NEW s \in Skill, ImportSkill(a, s)
        PROVE  TypeOK'
    <3>1. draft[a] \in Draft /\ draft[a].caps \in Capabilities
      BY DEF TypeOK, Draft
    <3>2. PICK on \in BOOLEAN : on <=> s \in draft[a].bundle.on
      OBVIOUS
    <3>3. /\ Set(draft[a].caps, s, on) \in Capabilities
          /\ draft' = [draft EXCEPT ![a].caps = Set(@, s, on)]
      BY <2>9, <3>1, <3>2, SetType DEF ImportSkill
    <3>4. draft' \in [Admin -> Draft]
      BY <3>1, <3>3 DEF TypeOK, Draft
    <3> QED BY <2>9, <3>4 DEF TypeOK, ImportSkill
  <2>10. ASSUME NEW a \in Admin, SaveImport(a)
         PROVE  TypeOK'
    <3>1. /\ caps' \in Capabilities
          /\ content' \in [Kind -> Custom]
      BY <2>10 DEF TypeOK, SaveImport, Draft, Bundle
    <3> QED BY <3>1, <2>10, AnswerType DEF TypeOK, SaveImport
  <2>11. ASSUME NEW a \in Admin, GiveUp(a)
         PROVE  TypeOK'
    BY <2>11, AnswerType DEF TypeOK, GiveUp
  <2>12. CASE UNCHANGED vars
    BY <2>12 DEF TypeOK, vars
  <2> QED
    BY <2>1, <2>2, <2>3, <2>4, <2>5, <2>6, <2>7, <2>8, <2>9, <2>10, <2>11, <2>12 DEF Next
<1> QED BY <1>1, <1>2, PTL DEF Spec

-----------------------------------------------------------------------------
(* Imports                                                                 *)

\* An entry that has been imported has the switch the bundle gives it, and
\* its groups are on: later entries cannot take either away.
EntryImported(a, t) ==
  /\ draft[a].caps.own[t] = Switch(t \in draft[a].bundle.on)
  /\ \A g \in Group : t \in Members[g] => draft[a].caps.group[g]

ImportInv ==
  \A a \in Admin : pc[a] = "importing" => \A t \in Skill \ todo[a] : EntryImported(a, t)

\* Only the steps of an import touch an import that goes on.
LEMMA ImportStep ==
  ASSUME TypeOK, [Next]_vars, NEW b \in Admin, pc'[b] = "importing"
  PROVE  \/ BeginImport(b)
         \/ \E s \in Skill : ImportSkill(b, s)
         \/ UNCHANGED <<pc[b], draft[b], todo[b]>>
  BY DEF TypeOK, Next, vars, SwitchSkill, SwitchGroup, SaveContent, ResetContent,
         BeginDisable, Disable, Export, BeginImport, ImportSkill, SaveImport, GiveUp, Answer

LEMMA ImportInvariant == Spec => []ImportInv
<1>1. Init => ImportInv
  BY DEF Init, ImportInv
<1>2. TypeOK /\ ImportInv /\ [Next]_vars => ImportInv'
  <2> SUFFICES ASSUME TypeOK, ImportInv, [Next]_vars,
                      NEW b \in Admin, pc'[b] = "importing",
                      NEW t \in Skill \ todo'[b]
               PROVE  EntryImported(b, t)'
    BY DEF ImportInv
  <2>1. CASE BeginImport(b)
    BY <2>1 DEF BeginImport, TypeOK
  <2>2. ASSUME NEW s \in Skill, ImportSkill(b, s)
        PROVE  EntryImported(b, t)'
    <3> DEFINE c == draft[b].caps
    <3>0. PICK on \in BOOLEAN : on <=> s \in draft[b].bundle.on
      OBVIOUS
    <3>1. /\ draft[b] \in Draft /\ c \in Capabilities
          /\ draft'[b].caps = Set(c, s, on)
          /\ draft'[b].bundle = draft[b].bundle
      BY <2>2, <3>0 DEF TypeOK, Draft, ImportSkill
    <3>2. CASE t = s
      BY <3>0, <3>1, <3>2, SetTakesEffect DEF EntryImported, Switch
    <3>3. CASE t # s
      <4>1. EntryImported(b, t)
        BY <2>2, <3>3 DEF ImportSkill, ImportInv, TypeOK
      <4>2. c.own[t] # "inherit"
        BY <4>1 DEF EntryImported, Switch
      <4>3. /\ Set(c, s, on).own[t] = c.own[t]
            /\ \A g \in Group : c.group[g] => Set(c, s, on).group[g]
        BY <3>1, <3>3, <4>2, SetKeepsSwitches
      <4> QED BY <4>1, <4>3, <3>1 DEF EntryImported
    <3> QED BY <3>2, <3>3
  <2>3. CASE UNCHANGED <<pc[b], draft[b], todo[b]>>
    BY <2>3 DEF ImportInv, EntryImported
  <2> QED BY <2>1, <2>2, <2>3, ImportStep
<1> QED BY <1>1, <1>2, TypeInvariant, PTL DEF Spec

\* The saved record offers what the bundle lists, and the custom text is its.
THEOREM ImportBringsBack == Spec => ImportRestores
<1> DEFINE Restored(a) == /\ Offered(caps') = draft[a].bundle.on
                          /\ content'["skills"] = draft[a].bundle.custom
<1>1. TypeOK /\ ImportInv /\ [Next]_vars => [\A a \in Admin : SaveImport(a) => Restored(a)]_vars
  <2> SUFFICES ASSUME TypeOK, ImportInv, NEW a \in Admin, SaveImport(a)
               PROVE  Restored(a)
    OBVIOUS
  <2>1. /\ draft[a] \in Draft /\ draft[a].bundle.on \subseteq Skill
        /\ caps' = draft[a].caps
    BY DEF TypeOK, Draft, Bundle, SaveImport
  <2>2. \A t \in Skill : EntryImported(a, t)
    BY DEF ImportInv, SaveImport
  <2>3. \A t \in Skill : Enabled(caps', t) <=> t \in draft[a].bundle.on
    BY <2>1, <2>2 DEF EntryImported, Enabled, Switch
  <2>4. content'["skills"] = draft[a].bundle.custom
    BY <2>1, SwitchAssumption DEF Draft, SaveImport
  <2> QED BY <2>1, <2>3, <2>4 DEF Offered
<1> QED BY <1>1, TypeInvariant, ImportInvariant, PTL DEF Spec, ImportRestores

-----------------------------------------------------------------------------
(* Independent switches                                                    *)

\* Without the identifiers of groups, a skill is only switched on together with
\* its groups: nothing under a group that is off has been switched on.
OffUnderGroups(c) ==
  \A g \in Group : ~c.group[g] => \A t \in Skill : t \in Members[g] => c.own[t] # "on"

GroupInv ==
  ~oldIds => /\ OffUnderGroups(caps)
             /\ \A a \in Admin : OffUnderGroups(draft[a].caps)

LEMMA SetKeepsGroups ==
  ASSUME NEW c \in Capabilities, NEW s \in Skill, NEW on \in BOOLEAN, OffUnderGroups(c)
  PROVE  OffUnderGroups(Set(c, s, on))
<1> SUFFICES ASSUME NEW g \in Group, ~Set(c, s, on).group[g],
                    NEW t \in Skill, t \in Members[g]
             PROVE  Set(c, s, on).own[t] # "on"
  BY DEF OffUnderGroups
<1>1. t # s
  BY SetTakesEffect
<1>2. c.own[t] # "on"
  BY <1>1, SetKeepsSwitches DEF OffUnderGroups
<1> QED BY <1>1, <1>2, SetKeepsSwitches

\* What kind of identifiers a bot is sent does not change.
LEMMA OldIdsStay == [Next]_vars => oldIds' = oldIds
  BY DEF Next, vars, SwitchSkill, SwitchGroup, SaveContent, ResetContent, BeginDisable,
         Disable, Export, BeginImport, ImportSkill, SaveImport, GiveUp

LEMMA GroupInvariant == Spec => []GroupInv
<1>0. OffUnderGroups(AllOn)
  BY DEF OffUnderGroups, AllOn
<1>1. Init => GroupInv
  <2> SUFFICES ASSUME Init PROVE GroupInv
    OBVIOUS
  <2>1. OffUnderGroups(caps)
    BY DEF Init, OffUnderGroups, Grouped
  <2> QED BY <1>0, <2>1 DEF Init, GroupInv, NoDraft
<1>2. TypeOK /\ GroupInv /\ [Next]_vars => GroupInv'
  <2> SUFFICES ASSUME TypeOK, [Next]_vars, ~oldIds,
                      OffUnderGroups(caps), \A a \in Admin : OffUnderGroups(draft[a].caps)
               PROVE  GroupInv'
    BY OldIdsStay DEF GroupInv
  <2>1. ASSUME NEW s \in Skill, NEW on \in BOOLEAN, SwitchSkill(s, on)
        PROVE  GroupInv'
    BY <2>1, SetKeepsGroups DEF SwitchSkill, GroupInv, TypeOK
  <2>2. ASSUME NEW g \in Group, NEW on \in BOOLEAN
        PROVE  ~SwitchGroup(g, on)
    BY DEF SwitchGroup
  <2>3. ASSUME NEW a \in Admin, Answer(a), UNCHANGED caps
        PROVE  GroupInv'
    BY <1>0, <2>3 DEF GroupInv, Answer, NoDraft, TypeOK
  <2>4. ASSUME NEW a \in Admin, NEW k \in Kind, BeginDisable(a, k)
        PROVE  GroupInv'
    <3>1. \A b \in Admin : draft'[b].caps = draft[b].caps
      BY <2>4 DEF BeginDisable, TypeOK, Draft
    <3> QED BY <2>4, <3>1 DEF BeginDisable, GroupInv
  <2>5. ASSUME NEW a \in Admin, BeginImport(a)
        PROVE  GroupInv'
    <3>1. \A b \in Admin : draft'[b].caps = IF b = a THEN caps ELSE draft[b].caps
      BY <2>5 DEF BeginImport, TypeOK, Draft
    <3> QED BY <2>5, <3>1 DEF BeginImport, GroupInv
  <2>6. ASSUME NEW a \in Admin, NEW s \in Skill, ImportSkill(a, s)
        PROVE  GroupInv'
    <3>0. PICK on \in BOOLEAN : on <=> s \in draft[a].bundle.on
      OBVIOUS
    <3>1. \A b \in Admin :
            draft'[b].caps = IF b = a THEN Set(draft[b].caps, s, on) ELSE draft[b].caps
      BY <2>6, <3>0 DEF ImportSkill, TypeOK, Draft
    <3>2. draft[a].caps \in Capabilities /\ OffUnderGroups(draft[a].caps)
      BY DEF GroupInv, TypeOK, Draft
    <3>3. OffUnderGroups(Set(draft[a].caps, s, on))
      BY <3>2, SetKeepsGroups
    <3> QED BY <2>6, <3>1, <3>3 DEF ImportSkill, GroupInv
  <2>7. ASSUME NEW a \in Admin, SaveImport(a)
        PROVE  GroupInv'
    BY <1>0, <2>7 DEF SaveImport, GroupInv, Answer, NoDraft, TypeOK
  <2>8. ASSUME UNCHANGED <<caps, draft>>
        PROVE  GroupInv'
    BY <2>8 DEF GroupInv
  <2>9. CASE Next
    BY <2>9, <2>1, <2>2, <2>3, <2>4, <2>5, <2>6, <2>7, <2>8
       DEF Next, SaveContent, ResetContent, Disable, Export, GiveUp
  <2> QED BY <2>8, <2>9 DEF vars
<1> QED BY <1>1, <1>2, TypeInvariant, PTL DEF Spec

\* Seen from one record: Set moves the skill it is asked to, and no other.
LEMMA SetMovesOne ==
  ASSUME NEW c \in Capabilities, NEW s \in Skill, NEW on \in BOOLEAN, OffUnderGroups(c)
  PROVE  Offered(Set(c, s, on)) = IF on THEN Offered(c) \cup {s} ELSE Offered(c) \ {s}
<1> DEFINE d == Set(c, s, on)
<1>1. Enabled(d, s) <=> on
  BY SetTakesEffect DEF Enabled, Switch
<1>2. ASSUME NEW t \in Skill, t # s
      PROVE  Enabled(d, t) <=> Enabled(c, t)
  <2>1. CASE \E g \in Group : {s, t} \subseteq Members[g] /\ ~c.group[g]
    <3>1. c.own[t] # "on"
      BY <2>1 DEF OffUnderGroups
    <3>2. d.own[t] = "off"
      BY <1>2, <2>1, <3>1 DEF Set, Pinned, Capabilities
    <3> QED BY <2>1, <3>2 DEF Enabled
  <2>2. CASE ~\E g \in Group : {s, t} \subseteq Members[g] /\ ~c.group[g]
    <3>1. d.own[t] = c.own[t]
      BY <1>2, <2>2 DEF Set, Pinned, Capabilities
    <3>2. \A g \in Group : t \in Members[g] => (d.group[g] <=> c.group[g])
      BY <2>2 DEF Set, GroupsFor, Capabilities
    <3> QED BY <3>1, <3>2 DEF Enabled
  <2> QED BY <2>1, <2>2
<1> QED BY <1>1, <1>2 DEF Offered

\* While nobody uses the identifiers of groups, each switch is independent.
THEOREM SwitchesIndependent == Spec => SwitchesAreIndependent
<1> DEFINE One(s, on) == Offered(caps') = IF on THEN Offered(caps) \cup {s} ELSE Offered(caps) \ {s}
<1>1. TypeOK /\ GroupInv /\ [Next]_vars
        => [\A s \in Skill, on \in BOOLEAN : ~oldIds /\ SwitchSkill(s, on) => One(s, on)]_vars
  BY SetMovesOne DEF TypeOK, GroupInv, SwitchSkill
<1> QED BY <1>1, GroupInvariant, TypeInvariant, PTL DEF Spec, SwitchesAreIndependent

-----------------------------------------------------------------------------
(* RequestPlan: what is left of a plan                                     *)

\* What is left of a plan: only what is enabled, a file only if the caller's words
\* ask for one, and no refusal without words.
FitsRequest(p, r) ==
  /\ \A s \in p.skills : SkillEnabled(s, r)
  /\ \A i \in DOMAIN p.steps : SkillEnabled(p.steps[i], r)
  /\ ActionEnabled(p.action, r)
  /\ p.action = "generate_code" /\ p.delivery = "file" => r.file
  /\ p.action = "refuse" => p.refusal = "text"

\* What the planner answers is a plan, its own refusal among them.
LEMMA AnswersArePlans ==
  ASSUME NEW p \in Answers PROVE p \in Plan
<1>1. NativeRefusal \in Plan
  BY DEF NativeRefusal, Plan, Action
<1> QED BY <1>1, PlanAssumption DEF Answers

\* A plan whose steps were all taken away is one that may be left.
LEMMA NoStepsAreLeft ==
  ASSUME NEW p \in Answers
  PROVE  <<>> \in UNION {{Restrict(q.steps, places) : places \in SUBSET DOMAIN q.steps} : q \in Answers}
<1>1. Restrict(p.steps, {}) = <<>>
  BY DEF Restrict
<1> QED BY <1>1

\* After the first cut every skill and step is enabled.
LEMMA KeepEnabledFits ==
  ASSUME NEW p \in Answers, NEW r \in Request
  PROVE  /\ KeepEnabled(p, r) \in Rest
         /\ \A s \in KeepEnabled(p, r).skills : SkillEnabled(s, r)
         /\ \A i \in DOMAIN KeepEnabled(p, r).steps : SkillEnabled(KeepEnabled(p, r).steps[i], r)
<1> DEFINE places == {i \in DOMAIN p.steps : SkillEnabled(p.steps[i], r)}
           skills == {s \in p.skills : SkillEnabled(s, r)}
<1>1. p \in Plan
  BY AnswersArePlans
<1>2. KeepEnabled(p, r) = [p EXCEPT !.skills = skills, !.steps = Restrict(p.steps, places)]
  BY <1>1 DEF KeepEnabled, RestrictValues, Plan
<1>3. Restrict(p.steps, places) = [i \in places |-> p.steps[i]]
  BY DEF Restrict
<1>4. Restrict(p.steps, places)
        \in UNION {{Restrict(q.steps, some) : some \in SUBSET DOMAIN q.steps} : q \in Answers}
  OBVIOUS
<1> HIDE DEF places, skills
<1>5. KeepEnabled(p, r).skills = skills /\ KeepEnabled(p, r).steps = Restrict(p.steps, places)
  BY <1>1, <1>2 DEF Plan
<1>6. KeepEnabled(p, r) \in Rest
  <2>1. skills \subseteq PlannedSkill
    BY <1>1 DEF skills, Plan
  <2> QED BY <1>1, <1>2, <1>4, <2>1 DEF Rest, Plan
<1>7. \A s \in skills : SkillEnabled(s, r)
  BY DEF skills
<1>8. \A i \in DOMAIN Restrict(p.steps, places) : SkillEnabled(Restrict(p.steps, places)[i], r)
  BY <1>3 DEF places
<1> QED BY <1>5, <1>6, <1>7, <1>8

\* Each cut keeps what the ones before it ensured, and together they leave a plan that
\* fits its request.
LEMMA NormalizedFits ==
  ASSUME NEW p \in Answers, NEW r \in Request
  PROVE  Normalized(p, r) \in Rest /\ FitsRequest(Normalized(p, r), r)
<1> DEFINE Allowed(q) == /\ q \in Rest
                         /\ \A s \in q.skills : SkillEnabled(s, r)
                         /\ \A i \in DOMAIN q.steps : SkillEnabled(q.steps[i], r)
           k == KeepEnabled(p, r)
           w == AsWorkflow(k)
           a == WithoutDisabledAction(w, r)
           c == WithCodeEvidence(a, r)
           d == InlineUnlessCodeFile(c, r)
           n == WithRefusalText(d)
<1>1. Allowed(k)
  BY KeepEnabledFits
<1>2. Allowed(w)
  <2> HIDE DEF k
  <2>1. [k EXCEPT !.steps = <<>>] \in Rest
    BY <1>1, NoStepsAreLeft DEF Rest
  <2>2. [k EXCEPT !.action = "chat"] \in Rest
    BY <1>1 DEF Rest, Action
  <2>3. DOMAIN <<>> = {}
    OBVIOUS
  <2> QED BY <1>1, <2>1, <2>2, <2>3 DEF AsWorkflow, Rest
<1> HIDE DEF w
<1>3. Allowed(a) /\ ActionEnabled(a.action, r)
  BY <1>2 DEF WithoutDisabledAction, Rest, Action, ActionEnabled, ActionFlag
<1> HIDE DEF a
<1>4. Allowed(c) /\ ActionEnabled(c.action, r)
  BY <1>3 DEF WithCodeEvidence, Rest, Action, ActionEnabled, ActionFlag
<1> HIDE DEF c
<1>5. /\ Allowed(d) /\ ActionEnabled(d.action, r)
      /\ d.action = "generate_code" /\ d.delivery = "file" => r.file
  BY <1>4 DEF InlineUnlessCodeFile, Rest
<1> HIDE DEF d
<1>6. FitsRequest(n, r) /\ n \in Rest
  BY <1>5 DEF WithRefusalText, Rest, FitsRequest
<1> QED BY <1>6 DEF Normalized, w, a, c, d, n

\* Whether the action or a single skill decides, a plan that fits leads to no generation
\* that is switched off.
LEMMA CommandIsEnabled ==
  ASSUME NEW CONSTANT p, NEW CONSTANT r \in Request, p # NoPlan => p \in Rest /\ FitsRequest(p, r)
  PROVE  DirectGeneration(p) = "none" \/ ActionEnabled(DirectGeneration(p), r)
<1> DEFINE generations == {s \in p.skills : SkillAction(s) # "none"}
           one == CHOOSE s \in generations : TRUE
<1>1. CASE p = NoPlan \/ Composed(p)
  BY <1>1 DEF DirectGeneration
<1>2. CASE ~(p = NoPlan \/ Composed(p))
  <2>1. CASE p.action \in {"generate_image", "generate_speech", "generate_music", "generate_audio",
                          "generate_video", "generate_3d", "generate_vector"}
    <3>1. DirectGeneration(p) = p.action
      BY <1>2, <2>1 DEF DirectGeneration
    <3> QED BY <1>2, <3>1 DEF FitsRequest
  <2>2. CASE p.action \in {"chat", "generate_code"} /\ Cardinality(generations) = 1
    <3>1. DirectGeneration(p) = SkillAction(one)
      BY <1>2, <2>2 DEF DirectGeneration
    <3>2. generations # {}
      BY <2>2, FS_EmptySet
    <3>3. one \in p.skills
      BY <3>2
    <3>4. one \in PlannedSkill /\ SkillEnabled(one, r)
      BY <1>2, <3>3 DEF FitsRequest, Rest
    <3> HIDE DEF one
    <3> QED BY <3>1, <3>4 DEF SkillAction, SkillEnabled, SkillFlag, ActionEnabled, ActionFlag, PlannedSkill
  <2>3. CASE ~(p.action \in {"generate_image", "generate_speech", "generate_music", "generate_audio",
                            "generate_video", "generate_3d", "generate_vector"})
             /\ ~(p.action \in {"chat", "generate_code"} /\ Cardinality(generations) = 1)
    <3>1. DirectGeneration(p) = "none"
      BY <1>2, <2>3, Zenon DEF DirectGeneration
    <3> QED BY <3>1
  <2> HIDE DEF generations, one
  <2> QED BY <2>1, <2>2, <2>3
<1> QED BY <1>1, <1>2

-----------------------------------------------------------------------------
(* RequestPlan: what is done about a request                               *)

\* What has been decided by each stage.
PlanInv ==
  /\ request \in Request
  /\ plan # NoPlan => plan \in Rest /\ FitsRequest(plan, request)
  /\ stage # "done" => outcome = "open"
  /\ stage \in {"planning", "extracting", "routing"} => made = {}
  /\ "grounding" \in made \/ stage \in {"researching", "grounding"} => NeedsResearch
  /\ "expansion" \in made \/ stage = "expanding" => HasSkill("prompt_expansion")
  /\ (stage = "expanding" \/ outcome \in Generated) /\ NeedsResearch => "grounding" \in made
  /\ stage = "expanding" => Command # "none"
  /\ insufficient => form = "schema"
  /\ outcome \in Generated => outcome = Command
  /\ outcome = "transcribe" => Transcribes
  /\ outcome = "workflow" => plan # NoPlan
  /\ outcome = "file" => /\ plan # NoPlan /\ plan.action = "generate_code" /\ plan.delivery = "file"
                         /\ "file" \in request.enabled
  /\ outcome = "refuse" => plan # NoPlan /\ plan.action = "refuse"

\* Nothing is decided at first.
LEMMA PlanInvInit == PlanInit => PlanInv
  BY PlanAssumption DEF PlanInit, PlanInv, Generated

\* A step that leaves the plan alone leaves what is read of it alone.
LEMMA SamePlan ==
  ASSUME UNCHANGED <<request, plan>>
  PROVE  /\ HasSkill("prompt_expansion")' <=> HasSkill("prompt_expansion")
         /\ Transcribes' <=> Transcribes
         /\ NeedsResearch' <=> NeedsResearch
         /\ Command' = Command
  BY DEF HasSkill, Transcribes, Command, NeedsResearch, GenerationAction

\* A generation is no other way out.
LEMMA Commands ==
  Command \in Generated \cup {"none"} /\ Command \notin {"open", "transcribe", "workflow", "file", "refuse"}
  BY DEF Command, Generated

\* A complete prompt is expanded first, or used.
LEMMA WaysOfAPrompt ==
  ASSUME ExpandOrMake
  PROVE  \/ /\ HasSkill("prompt_expansion") /\ stage' = "expanding" /\ outcome' = outcome
            /\ insufficient' = FALSE
         \/ /\ stage' = "done" /\ outcome' = Command
            /\ insufficient' = insufficient /\ form' = form
  BY DEF ExpandOrMake, Ask, End, ladder

\* Every step of a request keeps what its stage says.
LEMMA PlanInvStep ==
  ASSUME PlanInv, [PlanNext]_planVars
  PROVE  PlanInv'
<1>1. CASE UNCHANGED planVars
  BY <1>1, SamePlan DEF planVars, ladder, PlanInv
<1>2. CASE TryFails \/ Weaken \/ PlannerExhausted
  BY <1>2, SamePlan DEF TryFails, Weaken, PlannerExhausted, ladder, PlanInv, Asking, Generated
<1>3. ASSUME NEW p \in Answers, PlannerAnswers(p)
      PROVE  PlanInv'
  <2>1. plan' \in Rest /\ FitsRequest(plan', request)
    BY <1>3, NormalizedFits DEF PlannerAnswers, PlanInv
  <2>2. UNCHANGED <<request, made, outcome>> /\ stage = "planning" /\ stage' \in {"extracting", "routing"}
        /\ (insufficient' => form' = "schema")
    BY <1>3 DEF PlannerAnswers, Ask, ladder, PlanInv
  <2> QED BY <2>1, <2>2 DEF PlanInv, Generated
<1>4. CASE ExtractionExhausted
  BY <1>4 DEF ExtractionExhausted, ladder, PlanInv, Generated
<1>5. CASE Transcribe \/ Refuse \/ Chat \/ ResearchFails \/ GroundingExhausted \/ ExpansionAborts \/ ExpansionExhausted
  <2>1. /\ UNCHANGED <<request, plan, form, insufficient, made>> /\ stage # "done" /\ stage' = "done"
        /\ outcome' \notin Generated
        /\ outcome' = "transcribe" => Transcribes
        /\ outcome' = "workflow" => plan # NoPlan
        /\ outcome' = "file" => /\ plan # NoPlan /\ plan.action = "generate_code" /\ plan.delivery = "file"
                         /\ "file" \in request.enabled
        /\ outcome' = "refuse" => plan # NoPlan /\ plan.action = "refuse"
    BY <1>5 DEF Transcribe, Refuse, Chat, ResearchFails, GroundingExhausted, ExpansionAborts,
                ExpansionExhausted, End, ladder, Generated
  <2> QED BY <2>1, SamePlan DEF PlanInv
<1>6. CASE StartGeneration
  <2>1. /\ UNCHANGED <<request, plan, made>> /\ stage = "routing" /\ Command # "none"
        /\ \/ NeedsResearch /\ stage' = "researching" /\ UNCHANGED <<form, insufficient, outcome>>
           \/ ~NeedsResearch /\ ExpandOrMake
    BY <1>6 DEF StartGeneration, ladder
  <2>2. /\ HasSkill("prompt_expansion")' <=> HasSkill("prompt_expansion")
        /\ Transcribes' <=> Transcribes
        /\ NeedsResearch' <=> NeedsResearch
        /\ Command' = Command
    BY <2>1, SamePlan
  <2>3. CASE NeedsResearch /\ stage' = "researching" /\ UNCHANGED <<form, insufficient, outcome>>
    BY <2>1, <2>2, <2>3 DEF PlanInv, Generated
  <2>4. CASE ~NeedsResearch /\ ExpandOrMake
    <3>1. \/ /\ HasSkill("prompt_expansion") /\ stage' = "expanding" /\ outcome' = outcome
             /\ insufficient' = FALSE
          \/ /\ stage' = "done" /\ outcome' = Command
             /\ insufficient' = insufficient /\ form' = form
      BY <2>4, WaysOfAPrompt
    <3> QED BY <2>1, <2>2, <2>4, <3>1, Commands DEF PlanInv, Generated
  <2> QED BY <2>1, <2>3, <2>4
<1>7. CASE Researched \/ FindsInsufficient
  BY <1>7, SamePlan DEF Researched, FindsInsufficient, Ask, PlanInv, Generated
<1>8. CASE Grounded
  <2>1. /\ UNCHANGED <<request, plan>> /\ stage = "grounding" /\ made' = made \cup {"grounding"}
        /\ ExpandOrMake
    BY <1>8 DEF Grounded
  <2>2. Command # "none"
    BY <2>1 DEF PlanInv, NeedsResearch
  <2>3. /\ HasSkill("prompt_expansion")' <=> HasSkill("prompt_expansion")
        /\ Transcribes' <=> Transcribes
        /\ NeedsResearch' <=> NeedsResearch
        /\ Command' = Command
    BY <2>1, SamePlan
  <2>4. \/ /\ HasSkill("prompt_expansion") /\ stage' = "expanding" /\ outcome' = outcome
           /\ insufficient' = FALSE
        \/ /\ stage' = "done" /\ outcome' = Command
           /\ insufficient' = insufficient /\ form' = form
    BY <2>1, WaysOfAPrompt
  <2> QED BY <2>1, <2>3, <2>4, <2>2, Commands DEF PlanInv, Generated
<1>9. CASE Expanded
  <2>1. /\ UNCHANGED <<request, plan, form, insufficient>> /\ stage = "expanding" /\ made' = made \cup {"expansion"}
        /\ stage' = "done" /\ outcome' = Command
    BY <1>9 DEF Expanded, End, ladder
  <2> QED BY <2>1, SamePlan, Commands DEF PlanInv
<1>10. CASE Done
  BY <1>10, SamePlan DEF Done, planVars, ladder, PlanInv
<1>11. ASSUME NEW s \in Selections, SelectionAnswers(s)
       PROVE  PlanInv'
  BY <1>11, SamePlan DEF SelectionAnswers, ladder, PlanInv, Generated
<1> QED BY <1>1, <1>2, <1>3, <1>4, <1>5, <1>6, <1>7, <1>8, <1>9, <1>10, <1>11
        DEF PlanNext, Advance

\* Whatever the planner answers, nothing is generated, researched, expanded,
\* transcribed, handed over as a file or run as a workflow that is switched off, and
\* no refusal is empty.
THEOREM SwitchedOffStaysOff == PlanSpec => []NothingDisabledIsDone
<1>1. PlanInv => NothingDisabledIsDone
  <2> SUFFICES ASSUME PlanInv PROVE NothingDisabledIsDone
    OBVIOUS
  <2>1. ASSUME outcome \in Generated, request.override = "none"
        PROVE  FlagOf(outcome) \in request.enabled
    <3>1. outcome = Command /\ GenerationAction = DirectGeneration(plan)
      BY <2>1 DEF PlanInv, GenerationAction
    <3>2. DirectGeneration(plan) = "none" \/ ActionEnabled(DirectGeneration(plan), request)
      BY CommandIsEnabled DEF PlanInv
    <3> QED BY <2>1, <3>1, <3>2 DEF Command, ActionEnabled, ActionFlag, FlagOf, Generated
  <2>2. HasSkill("search") => "search" \in request.enabled
    BY DEF PlanInv, HasSkill, FitsRequest, SkillEnabled, SkillFlag
  <2>3. HasSkill("prompt_expansion") => "prompt_expansion" \in request.enabled
    BY DEF PlanInv, HasSkill, FitsRequest, SkillEnabled, SkillFlag
  <2>4. Transcribes => "transcription" \in request.enabled
    BY DEF PlanInv, Transcribes, FitsRequest, ActionEnabled, ActionFlag
  <2>5. NeedsResearch => HasSkill("search")
    BY DEF NeedsResearch
  <2> QED BY <2>1, <2>2, <2>3, <2>4, <2>5 DEF PlanInv, NothingDisabledIsDone, FitsRequest
<1> QED BY <1>1, PlanInvInit, PlanInvStep, PTL DEF PlanSpec

\* Looks are never made up.
THEOREM LooksAreResearched == PlanSpec => []LooksAreNotMadeUp
<1>1. PlanInv => LooksAreNotMadeUp
  BY DEF PlanInv, LooksAreNotMadeUp
<1> QED BY <1>1, PlanInvInit, PlanInvStep, PTL DEF PlanSpec

-----------------------------------------------------------------------------
(* Smallest numbers                                                        *)

\* Less is well founded on the natural numbers.
LEMMA LessIsWellFounded == IsWellFoundedOn({p \in Nat \X Nat : p[1] < p[2]}, Nat)
<1>1. OpToRel(<, Nat) = {p \in Nat \X Nat : p[1] < p[2]}
  BY DEF OpToRel
<1> QED BY <1>1, NatLessThanWellFounded, Zenon

\* A set of natural numbers has a smallest one.
LEMMA HasSmallest ==
  ASSUME NEW S \in SUBSET Nat, S # {}
  PROVE  \E m \in S : \A k \in S : m <= k
<1> DEFINE Less == {p \in Nat \X Nat : p[1] < p[2]}
<1> HIDE DEF Less
<1>1. \E m \in S : \A k \in S : <<k, m>> \notin Less
  <2>1. IsWellFoundedOn(Less, Nat)
    BY LessIsWellFounded DEF Less
  <2>2. S \subseteq Nat
    OBVIOUS
  <2> QED BY <2>1, <2>2, WFMin, Zenon
<1>2. PICK m \in S : \A k \in S : <<k, m>> \notin Less
  BY <1>1
<1>3. ASSUME NEW k \in S PROVE m <= k
  <2>1. <<k, m>> \in Nat \X Nat
    OBVIOUS
  <2>2. ~(k < m)
    BY <1>2, <2>1 DEF Less
  <2> QED BY <2>2
<1> QED BY <1>3

-----------------------------------------------------------------------------
(* PromptEnvelope: the words in front, and what is taken off               *)

\* The words at the front can be counted: there is a first word of another kind, or an end.
LEMMA LeadingWords ==
  ASSUME NEW S, NEW s \in Seq(S), NEW kinds
  PROVE  /\ Leading(s, kinds) \in 0 .. Len(s)
         /\ \A i \in 1 .. Leading(s, kinds) : s[i] \in kinds
<1> DEFINE Ends == {n \in 0 .. Len(s) : n < Len(s) => s[n + 1] \notin kinds}
           Front(n) == /\ \A i \in 1 .. n : s[i] \in kinds
                       /\ n < Len(s) => s[n + 1] \notin kinds
<1>1. Len(s) \in Ends /\ Ends \in SUBSET Nat
  OBVIOUS
<1>2. \E n \in Ends : \A m \in Ends : n <= m
  <2> HIDE DEF Ends
  <2> QED BY <1>1, HasSmallest
<1>3. PICK n \in Ends : \A m \in Ends : n <= m
  BY <1>2
<1>4. Front(n)
  <2>1. ASSUME NEW i \in 1 .. n, s[i] \notin kinds PROVE FALSE
    <3>1. i - 1 \in Ends
      BY <2>1
    <3>2. n <= i - 1
      BY <1>3, <3>1, Zenon
    <3> QED BY <3>2
  <2> QED BY <1>3, <2>1
<1>5. \E m \in 0 .. Len(s) : Front(m)
  BY <1>3, <1>4
<1>6. Leading(s, kinds) = CHOOSE m \in 0 .. Len(s) : Front(m)
  BY DEF Leading
<1> HIDE DEF Front
<1>7. Leading(s, kinds) \in 0 .. Len(s) /\ Front(Leading(s, kinds))
  BY <1>5, <1>6
<1> QED BY <1>7 DEF Front

\* What is said: the caller's words, and a reply.
Utterance == Word \cup {Quoted}

\* What is left of words once k are dropped.
From(words, k) == SubSeq(words, k + 1, Len(words))

\* What is left of words is words, each with its place moved.
LEMMA FromType ==
  ASSUME NEW words \in Seq(Utterance), NEW k \in 0 .. Len(words)
  PROVE  /\ From(words, k) \in Seq(Utterance)
         /\ Len(From(words, k)) = Len(words) - k
         /\ \A i \in 1 .. Len(words) - k : From(words, k)[i] = words[k + i]
<1>1. \A i \in k + 1 .. Len(words) : words[i] \in Utterance
  BY ElementOfSeq
<1> QED BY <1>1, SubSeqProperties DEF From

\* An excerpt is not empty.
LEMMA ExcerptsHaveWords ==
  ASSUME NEW S, NEW words \in Seq(S), NEW part, InWords(part, words)
  PROVE  part # <<>>
<1>1. PICK i \in DOMAIN words, j \in DOMAIN words : i <= j /\ part = SubSeq(words, i, j)
  BY DEF InWords
<1>2. i \in 1 .. Len(words) /\ j \in 1 .. Len(words)
  BY <1>1
<1>3. Len(part) = j - i + 1
  BY <1>1, <1>2, SubSeqProperties
<1> QED BY <1>1, <1>2, <1>3

\* The first k words only ask for a thing.
Envelopes(tool, words, k) ==
  \A i \in 1 .. k : Directive(words[i]) \/ Envelope(tool, words[i])

\* What is left of words once k are dropped, and what may be added to it.
Stripped(tool, words, k, result) ==
  \/ result = From(words, k)
  \/ /\ result = Append(From(words, k), Style)
     /\ tool = "image" /\ From(words, k) # <<>> /\ ~Holds(From(words, k), "photo")

\* Where no directive is taken off, the words stay, with a style behind them at most.
LEMMA StyledRequests ==
  ASSUME NEW tool, NEW words \in Seq(Utterance), NEW r \in Request
  PROVE  Stripped(tool, words, 0, RequestStyle(tool, words, r))
<1>1. From(words, 0) = words
  BY SubSeqFull DEF From
<1>2. r.words \in Seq(Word)
  BY DEF Request
<1>3. InWords(words, r.words) => words # <<>>
  BY <1>2, ExcerptsHaveWords
<1> QED BY <1>1, <1>3 DEF Stripped, RequestStyle, WithStyle

\* Only words of the envelope are dropped, never all of them, and only a style is added.
LEMMA StripDrops ==
  ASSUME NEW tool, NEW words \in Seq(Utterance), NEW r \in Request
  PROVE  \E k \in 0 .. Len(words) :
           /\ Envelopes(tool, words, k)
           /\ k > 0 => From(words, k) # <<>>
           /\ Stripped(tool, words, k, StripDirective(tool, words, r))
<1> DEFINE first   == Leading(words, PoliteWords) + 1
           rest    == SubSeq(words, first + 1, Len(words))
           inFront == {w \in Word : Envelope(tool, w)}
           lead    == Leading(rest, inFront)
           behind  == SubSeq(rest, lead + 1, Len(rest))
           result  == StripDirective(tool, words, r)
<1>0. /\ Envelopes(tool, words, 0)
      /\ Stripped(tool, words, 0, words)
      /\ Stripped(tool, words, 0, RequestStyle(tool, words, r))
  <2>1. Envelopes(tool, words, 0)
    BY DEF Envelopes
  <2>2. From(words, 0) = words
    BY SubSeqFull DEF From
  <2> QED BY <2>1, <2>2, StyledRequests DEF Stripped
<1>1. CASE result = words \/ result = RequestStyle(tool, words, r)
  BY <1>0, <1>1
<1>2. CASE /\ first <= Len(words) /\ Directive(words[first]) /\ behind # <<>>
           /\ result = WithStyle(tool, behind, words[first] = "draw")
  <2>0. first <= Len(words) /\ Directive(words[first])
    BY <1>2, Zenon
  <2>1. /\ first \in 1 .. Len(words) + 1
        /\ \A i \in 1 .. first - 1 : words[i] \in PoliteWords
    BY LeadingWords
  <2> HIDE DEF first
  <2>2. first \in 1 .. Len(words)
    BY <2>0, <2>1
  <2>3. rest = From(words, first)
    BY DEF From
  <2>4. /\ rest \in Seq(Utterance) /\ Len(rest) = Len(words) - first
        /\ \A i \in 1 .. Len(words) - first : rest[i] = words[first + i]
    BY <2>2, <2>3, FromType
  <2> HIDE DEF rest
  <2>5. lead \in 0 .. Len(rest) /\ \A i \in 1 .. lead : rest[i] \in inFront
    BY <2>4, LeadingWords
  <2> HIDE DEF lead
  <2>6. lead < Len(rest)
    BY <1>2, <2>4, <2>5, SubSeqEmpty
  <2>7. behind = From(words, first + lead)
    <3>1. first + lead \in 0 .. Len(words)
      BY <2>2, <2>4, <2>5
    <3>2. behind = From(rest, lead)
      BY DEF From
    <3>3. /\ behind \in Seq(Utterance) /\ Len(behind) = Len(rest) - lead
          /\ \A i \in 1 .. Len(rest) - lead : behind[i] = rest[lead + i]
      BY <2>4, <2>5, <3>2, FromType
    <3>4. /\ From(words, first + lead) \in Seq(Utterance)
          /\ Len(From(words, first + lead)) = Len(words) - (first + lead)
          /\ \A i \in 1 .. Len(words) - (first + lead) :
               From(words, first + lead)[i] = words[first + lead + i]
      BY <3>1, FromType
    <3> HIDE DEF behind
    <3>5. Len(behind) = Len(From(words, first + lead))
      <4>1. Len(rest) - lead = Len(words) - (first + lead)
        <5>1. Len(rest) = Len(words) - first /\ lead \in Nat /\ first \in Nat /\ Len(words) \in Nat
          BY <2>2, <2>4, <2>5
        <5> QED BY <5>1
      <4> QED BY <3>3, <3>4, <4>1
    <3>6. ASSUME NEW i \in 1 .. Len(behind)
          PROVE  behind[i] = From(words, first + lead)[i]
      <4>1. behind[i] = rest[lead + i] /\ lead + i \in 1 .. Len(words) - first
        BY <2>2, <2>4, <2>5, <3>3
      <4>2. rest[lead + i] = words[first + (lead + i)]
        BY <2>4, <4>1
      <4>3. From(words, first + lead)[i] = words[first + lead + i]
        BY <3>4, <3>5
      <4>4. first + (lead + i) = first + lead + i
        BY <2>2, <2>5, <4>1
      <4> QED BY <4>1, <4>2, <4>3, <4>4
    <3> QED BY <3>3, <3>4, <3>5, <3>6, SeqEqual
  <2>8. first + lead \in 0 .. Len(words)
    BY <2>2, <2>4, <2>5
  <2>9. Envelopes(tool, words, first + lead)
    <3> SUFFICES ASSUME NEW i \in 1 .. first + lead
                 PROVE  Directive(words[i]) \/ Envelope(tool, words[i])
      BY DEF Envelopes
    <3>1. CASE i < first
      BY <2>1, <3>1 DEF PoliteWords, Envelope
    <3>2. CASE i = first
      BY <2>0, <3>2
    <3>3. CASE i > first
      <4>1. i - first \in 1 .. lead
        BY <2>2, <2>5, <3>3
      <4>2. rest[i - first] = words[i]
        BY <2>2, <2>4, <2>5, <4>1
      <4> QED BY <2>5, <4>1, <4>2
    <3> QED BY <2>2, <3>1, <3>2, <3>3
  <2>10. Stripped(tool, words, first + lead, result)
    BY <1>2, <2>7 DEF WithStyle, Stripped
  <2> QED BY <1>2, <2>7, <2>8, <2>9, <2>10
<1>3. CASE r.attached # {}
  BY <1>1, <1>3 DEF StripDirective
<1>4. CASE r.attached = {} /\ (Len(words) < 2 \/ first > Len(words))
  BY <1>1, <1>4 DEF StripDirective
<1>5. CASE r.attached = {} /\ ~(Len(words) < 2 \/ first > Len(words))
  <2>1. result = IF ~Directive(words[first]) THEN RequestStyle(tool, words, r)
                 ELSE IF behind = <<>> THEN words
                 ELSE WithStyle(tool, behind, words[first] = "draw")
    BY <1>5 DEF StripDirective
  <2>2. first \in Nat /\ Len(words) \in Nat
    BY LeadingWords
  <2> HIDE DEF first, rest, behind, result
  <2> QED BY <1>1, <1>2, <1>5, <2>1, <2>2
<1> QED BY <1>3, <1>4, <1>5

-----------------------------------------------------------------------------
(* RequestPlan: whose words a prompt has                                   *)

\* What was added to words is found again.
LEMMA InFrontOfAdded ==
  ASSUME NEW S, NEW words \in Seq(S), NEW added
  PROVE  /\ InFront(Append(words, added), added) = words
         /\ added \notin S => InFront(words, added) = words
<1> DEFINE all  == Append(words, added)
           part == SubSeq(all, 1, Len(all) - 1)
<1>1. /\ all # <<>> /\ Len(all) = Len(words) + 1 /\ all[Len(words) + 1] = added
      /\ \A i \in 1 .. Len(words) : all[i] = words[i] /\ words[i] \in S
  OBVIOUS
<1> HIDE DEF all
<1>2. Len(words) \in Nat /\ Len(all) - 1 = Len(words)
  BY <1>1
<1>3. \A i \in 1 .. Len(words) : all[i] \in S
  BY <1>1
<1>4. /\ part \in Seq(S) /\ Len(part) = IF 1 <= Len(words) THEN Len(words) - 1 + 1 ELSE 0
      /\ \A i \in 1 .. Len(words) - 1 + 1 : part[i] = all[1 + i - 1]
  BY <1>2, <1>3, SubSeqProperties
<1>5. Len(part) = Len(words)
  BY <1>2, <1>4
<1>6. ASSUME NEW i \in 1 .. Len(words) PROVE part[i] = words[i]
  <2>1. i \in 1 .. Len(words) - 1 + 1 /\ 1 + i - 1 = i
    BY <1>2
  <2> QED BY <1>1, <1>4, <2>1
<1> HIDE DEF part
<1>7. part = words
  BY <1>4, <1>5, <1>6, SeqEqual
<1>8. InFront(all, added) = words
  BY <1>1, <1>2, <1>7 DEF InFront, part
<1>9. ASSUME added \notin S PROVE InFront(words, added) = words
  BY <1>9 DEF InFront
<1> QED BY <1>8, <1>9 DEF all

\* What is the caller's own in words with a reply behind them, and where the reply is
\* from.
OwnWords(said, r) ==
  LET own == InFront(said, Quoted)
  IN /\ own = <<>> \/ InWords(own, r.words)
     /\ Holds(said, Quoted) => r.reply \/ r.quote

\* A request is the caller's own.
LEMMA RequestsAreOwn ==
  ASSUME NEW r \in Request
  PROVE  /\ r.words \in Seq(Utterance) /\ r.words \in Seq(Word)
         /\ OwnWords(r.words, r)
<1>1. r.words \in Seq(Word)
  BY DEF Request
<1>2. r.words \in Seq(Utterance)
  BY <1>1, SeqMonotonic DEF Utterance
<1>3. Quoted \notin Word
  BY DEF Quoted, Word
<1>4. InFront(r.words, Quoted) = r.words
  BY <1>1, <1>3, InFrontOfAdded
<1>5. r.words = <<>> \/ InWords(r.words, r.words)
  <2>1. r.words # <<>> => 1 \in DOMAIN r.words /\ Len(r.words) \in DOMAIN r.words /\ 1 <= Len(r.words)
    BY <1>1
  <2>2. SubSeq(r.words, 1, Len(r.words)) = r.words
    BY <1>1, SubSeqFull
  <2> QED BY <2>1, <2>2 DEF InWords
<1>6. ~Holds(r.words, Quoted)
  BY <1>1, <1>3 DEF Holds
<1> QED BY <1>1, <1>2, <1>4, <1>5, <1>6 DEF OwnWords

\* What a planner may select is an excerpt of the request, a reply the caller gave, or both.
LEMMA EffectivePromptsAreOwn ==
  ASSUME NEW s \in Selection, NEW r \in Request
  PROVE  EffectivePrompt(s, r) \in Seq(Utterance) /\ OwnWords(EffectivePrompt(s, r), r)
<1> DEFINE core == CorePart(s, r)
           reply == ReplyPart(s, r)
<1>0. Quoted \notin Word
  BY DEF Quoted, Word
<1>1. core \in Seq(Word) /\ (core = <<>> \/ InWords(core, r.words))
  <2>1. CASE "current_request" \in s.sources /\ InText(s.core, r.words)
    <3>1. r.words \in Seq(Word)
      BY RequestsAreOwn
    <3>2. s.core[1] \in Int /\ s.core[2] \in Int
      BY DEF Selection
    <3>3. s.core[1] \in DOMAIN r.words /\ s.core[2] \in DOMAIN r.words /\ s.core[1] <= s.core[2]
      BY <2>1, <3>1, <3>2 DEF InText
    <3>4. core = SubSeq(r.words, s.core[1], s.core[2])
      BY <2>1 DEF CorePart
    <3>5. \A i \in s.core[1] .. s.core[2] : r.words[i] \in Word
      BY <3>1, <3>2, <3>3
    <3>6. core \in Seq(Word)
      BY <3>2, <3>4, <3>5, SubSeqProperties
    <3> QED BY <3>3, <3>4, <3>6 DEF InWords
  <2>2. CASE ~("current_request" \in s.sources /\ InText(s.core, r.words))
    BY <2>2 DEF CorePart
  <2> QED BY <2>1, <2>2
<1>2. \/ reply = <<>>
      \/ reply = <<Quoted>> /\ (r.reply \/ r.quote)
  BY DEF ReplyPart, InReply, InQuote
<1> HIDE DEF core, reply
<1>3. CASE reply = <<>>
  <2>1. core \o reply = core
    BY <1>1, <1>3, ConcatEmptySeq
  <2>2. InFront(core, Quoted) = core /\ ~Holds(core, Quoted)
    BY <1>0, <1>1, InFrontOfAdded DEF Holds
  <2>3. core \in Seq(Utterance)
    BY <1>1, SeqMonotonic DEF Utterance
  <2> QED BY <1>1, <2>1, <2>2, <2>3, RequestsAreOwn DEF EffectivePrompt, OwnWords, core, reply
<1>4. CASE reply = <<Quoted>> /\ (r.reply \/ r.quote)
  <2>1. core \in Seq(Utterance) /\ Quoted \in Utterance
    BY <1>1, SeqMonotonic DEF Utterance
  <2>2. core \o reply = Append(core, Quoted)
    BY <1>4, <2>1, AppendIsConcat
  <2>3. Append(core, Quoted) \in Seq(Utterance) /\ Append(core, Quoted) # <<>>
    BY <2>1, AppendProperties
  <2>4. InFront(Append(core, Quoted), Quoted) = core
    BY <1>1, InFrontOfAdded
  <2>5. EffectivePrompt(s, r) = Append(core, Quoted)
    BY <2>2, <2>3 DEF EffectivePrompt, core, reply
  <2> QED BY <1>1, <1>4, <2>3, <2>4, <2>5 DEF OwnWords
<1> QED BY <1>2, <1>3, <1>4

\* What is kept of the words that are said.
KeepsWords(tool, said, result) ==
  LET rest == InFront(result, Style)
  IN /\ rest # <<>>
     /\ said = Dropped(said, rest) \o rest
     /\ \A i \in DOMAIN Dropped(said, rest) : Directive(said[i]) \/ Envelope(tool, said[i])
     /\ Holds(result, Quoted) => Holds(said, Quoted)
     /\ Holds(result, Style) => tool = "image" /\ ~Holds(result, "photo")

\* Every way of stripping keeps the words that matter.
LEMMA StripKeepsWords ==
  ASSUME NEW tool, NEW said \in Seq(Utterance), NEW r \in Request,
         StripDirective(tool, said, r) # <<>>
  PROVE  KeepsWords(tool, said, StripDirective(tool, said, r))
<1> DEFINE result == StripDirective(tool, said, r)
<1>0. result # <<>>
  OBVIOUS
<1> HIDE DEF result
<1>1. PICK k \in 0 .. Len(said) :
        /\ Envelopes(tool, said, k)
        /\ k > 0 => From(said, k) # <<>>
        /\ Stripped(tool, said, k, result)
  BY StripDrops DEF result
<1> DEFINE rest == From(said, k)
           front == SubSeq(said, 1, k)
<1>2. /\ rest \in Seq(Utterance) /\ Len(rest) = Len(said) - k
      /\ \A i \in 1 .. Len(said) - k : rest[i] = said[k + i]
  BY FromType
<1>3. Style \notin Utterance /\ Style # "photo" /\ Style # Quoted
  BY DEF Utterance, Word, Style, Quoted
<1>4. front \o rest = said
  <2>1. 1 \in 1 .. Len(said) + 1 /\ k \in 1 - 1 .. Len(said) /\ Len(said) \in k .. Len(said)
    OBVIOUS
  <2>2. SubSeq(said, 1, k) \o SubSeq(said, k + 1, Len(said)) = SubSeq(said, 1, Len(said))
    BY <2>1, ConcatAdjacentSubSeq
  <2> QED BY <2>2, SubSeqFull DEF From
<1>5. DOMAIN front = 1 .. k
  <2>1. \A i \in 1 .. k : said[i] \in Utterance
    OBVIOUS
  <2>2. front \in Seq(Utterance) /\ Len(front) = k
    BY <2>1, SubSeqProperties
  <2> QED BY <2>2
<1> HIDE DEF rest
<1>6. Holds(rest, Quoted) => Holds(said, Quoted)
  <2> SUFFICES ASSUME NEW i \in DOMAIN rest, rest[i] = Quoted PROVE Holds(said, Quoted)
    BY DEF Holds
  <2>1. i \in 1 .. Len(said) - k
    BY <1>2
  <2>2. k + i \in DOMAIN said /\ said[k + i] = Quoted
    BY <1>2, <2>1
  <2> QED BY <2>2 DEF Holds
<1>7. ~Holds(rest, Style)
  BY <1>2, <1>3 DEF Holds
<1>8. /\ InFront(result, Style) = rest /\ rest # <<>>
      /\ Holds(result, Quoted) => Holds(rest, Quoted)
      /\ Holds(result, Style) => tool = "image" /\ ~Holds(result, "photo")
  <2>1. CASE result = rest
    BY <1>0, <1>2, <1>3, <1>7, <2>1, InFrontOfAdded
  <2>2. CASE /\ result = Append(rest, Style)
             /\ tool = "image" /\ rest # <<>> /\ ~Holds(rest, "photo")
    <3>1. InFront(result, Style) = rest
      BY <1>2, <2>2, InFrontOfAdded
    <3>2. /\ DOMAIN result = 1 .. Len(rest) + 1 /\ DOMAIN rest = 1 .. Len(rest)
          /\ \A i \in 1 .. Len(rest) : result[i] = rest[i]
          /\ result[Len(rest) + 1] = Style
      <4>1. result = Append(rest, Style)
        BY <2>2, Zenon
      <4>2. rest \in Seq(Utterance)
        BY <1>2
      <4> QED BY <4>1, <4>2
    <3>3. ASSUME NEW i \in DOMAIN result
          PROVE  (i \in DOMAIN rest /\ result[i] = rest[i]) \/ result[i] = Style
      BY <1>2, <3>2
    <3>4. Holds(result, Quoted) => Holds(rest, Quoted)
      BY <1>3, <3>3 DEF Holds
    <3>5. Holds(result, "photo") => Holds(rest, "photo")
      BY <1>3, <3>3 DEF Holds
    <3> QED BY <2>2, <3>1, <3>4, <3>5
  <2> QED BY <1>1, <2>1, <2>2 DEF Stripped, rest
<1>9. Dropped(said, rest) = front
  <2>1. Len(said) - Len(rest) = k
    BY <1>2
  <2> QED BY <2>1 DEF Dropped
<1> HIDE DEF front
<1>10. \A i \in DOMAIN front : Directive(said[i]) \/ Envelope(tool, said[i])
  BY <1>1, <1>5 DEF Envelopes
<1> QED BY <1>4, <1>6, <1>8, <1>9, <1>10 DEF KeepsWords, result

\* The prompt is what is left of what the caller said, as long as no ladder wrote it
\* anew, and it is not begun before the plan is complete.
PromptInv ==
  /\ request \in Request /\ selection \in Selection
  /\ stage \in {"planning", "extracting", "routing"} => prompt = <<>>
  /\ prompt # <<>> /\ made = {} => prompt = StripDirective(Command, Said, request)

\* There is no prompt at first.
LEMMA PromptInvInit == PlanInit => PromptInv
  BY PlanAssumption DEF PlanInit, PromptInv, NoSelection, Selection

\* Once begun, a prompt changes only where a ladder writes it anew.
LEMMA PromptInvStep ==
  ASSUME PromptInv, [PlanNext]_planVars
  PROVE  PromptInv'
<1>0. ASSUME UNCHANGED <<request, plan, selection>>
      PROVE  Command' = Command /\ Said' = Said
  BY <1>0 DEF Command, GenerationAction, Said
<1>1. CASE UNCHANGED <<request, plan, selection, prompt, made>>
           /\ (stage' = stage \/ stage' \notin {"planning", "extracting", "routing"}
               \/ stage \in {"planning", "extracting", "routing"})
  BY <1>0, <1>1 DEF PromptInv
<1>2. CASE \/ UNCHANGED planVars \/ Done \/ TryFails \/ Weaken \/ PlannerExhausted
           \/ Transcribe \/ Refuse \/ Chat \/ Researched \/ ResearchFails \/ FindsInsufficient
           \/ GroundingExhausted \/ ExpansionAborts \/ ExpansionExhausted
  BY <1>1, <1>2 DEF planVars, Done, TryFails, Weaken, PlannerExhausted, Transcribe, Refuse, Chat,
    Researched, ResearchFails, FindsInsufficient, GroundingExhausted, ExpansionAborts,
    ExpansionExhausted, End, Ask, ladder
<1>3. ASSUME NEW p \in Answers, PlannerAnswers(p) PROVE PromptInv'
  BY <1>3 DEF PlannerAnswers, PromptInv
<1>4. ASSUME NEW s \in Selections, SelectionAnswers(s) PROVE PromptInv'
  BY <1>4, PlanAssumption DEF SelectionAnswers, PromptInv
<1>5. CASE ExtractionExhausted
  <2>1. request' = request /\ prompt' = <<>>
    BY <1>5 DEF ExtractionExhausted, PromptInv
  <2>2. selection' \in Selection
    <3>1. Len(request.words) \in Int
      BY DEF PromptInv, Request
    <3> QED BY <1>5, <3>1 DEF ExtractionExhausted, PromptInv, Selection, Source
  <2> QED BY <2>1, <2>2 DEF PromptInv
<1>6. CASE StartGeneration
  <2>1. /\ UNCHANGED <<request, plan, selection, made>>
        /\ prompt' = StripDirective(Command, Said, request)
        /\ stage' \in {"researching", "expanding", "done"}
    BY <1>6 DEF StartGeneration, ExpandOrMake, Ask, End
  <2> QED BY <1>0, <2>1 DEF PromptInv
<1>7. CASE Grounded \/ Expanded
  <2>1. UNCHANGED <<request, selection>> /\ made' # {} /\ stage' \in {"expanding", "done"}
    BY <1>7 DEF Grounded, Expanded, ExpandOrMake, Ask, End
  <2> QED BY <2>1 DEF PromptInv
<1> QED BY <1>2, <1>3, <1>4, <1>5, <1>6, <1>7 DEF PlanNext, Advance

\* A prompt that no ladder wrote anew is the caller's, whatever was planned and selected.
THEOREM PromptsStayTheCallersWords == PlanSpec => []PromptIsTheCallers
<1>1. PromptInv => PromptIsTheCallers
  <2> SUFFICES ASSUME PromptInv, prompt # <<>>, made = {}
               PROVE  PromptIsTheCallers
    BY DEF PromptIsTheCallers
  <2>1. Said \in Seq(Utterance) /\ OwnWords(Said, request)
    BY RequestsAreOwn, EffectivePromptsAreOwn DEF Said, PromptInv
  <2>2. prompt = StripDirective(Command, Said, request) /\ request \in Request
    BY DEF PromptInv
  <2>3. KeepsWords(Command, Said, prompt)
    BY <2>1, <2>2, StripKeepsWords
  <2> QED BY <2>1, <2>3 DEF PromptIsTheCallers, WithoutStyle, OwnWords, KeepsWords
<1> QED BY <1>1, PromptInvInit, PromptInvStep, PTL DEF PlanSpec

-----------------------------------------------------------------------------
(* RequestPlan: types                                                      *)

\* What goes to a generator.
Prompt == Seq(Word \cup {Style, Quoted, Rewritten})

\* A stripped prompt is a prompt.
LEMMA StripType ==
  ASSUME NEW tool, NEW said \in Seq(Utterance), NEW r \in Request
  PROVE  StripDirective(tool, said, r) \in Prompt
<1> DEFINE result == StripDirective(tool, said, r)
<1>1. PICK k \in 0 .. Len(said) : Stripped(tool, said, k, result)
  BY StripDrops
<1> HIDE DEF result
<1>2. From(said, k) \in Seq(Utterance)
  BY FromType
<1>3. From(said, k) \in Prompt
  BY <1>2, SeqMonotonic DEF Utterance, Prompt
<1>4. Append(From(said, k), Style) \in Prompt
  BY <1>3, AppendProperties DEF Prompt
<1>5. result = From(said, k) \/ result = Append(From(said, k), Style)
  BY <1>1, Zenon DEF Stripped
<1> QED BY <1>3, <1>4, <1>5 DEF result

\* Every variable keeps to its type, for any requests, plans, selections and models.
THEOREM PlanTypeInvariant == PlanSpec => []PlanTypeOK
<1> DEFINE Model == {Models[i] : i \in DOMAIN Models}
<1>1. PlanInit => PlanTypeOK
  <2>1. NoSelection \in Selection
    BY DEF NoSelection, Selection
  <2>2. Models \in Seq(Model) /\ Requests \subseteq Request
    BY PlanAssumption
  <2>3. <<>> \in Prompt
    BY EmptySeq DEF Prompt
  <2> SUFFICES ASSUME PlanInit PROVE PlanTypeOK
    OBVIOUS
  <2>4. request \in Request /\ left \in Seq(Model) /\ prompt \in Prompt /\ selection \in Selection
    BY <2>1, <2>2, <2>3 DEF PlanInit
  <2>5. stage \in {"planning", "routing"} /\ form = "schema" /\ insufficient = FALSE /\ plan = NoPlan
        /\ made = {} /\ outcome = "open"
    BY DEF PlanInit
  <2> HIDE DEF Model
  <2> QED BY <2>4, <2>5 DEF PlanTypeOK, Asking, Outcome, Model, Prompt
<1>2. ASSUME PlanTypeOK, PlanInv, [PlanNext]_planVars PROVE PlanTypeOK'
  <2> USE <1>2
  <2>1. ASSUME NEW f, NEW s, Ask(f, s), s \in {"schema", "text"}
        PROVE  form' \in {"schema", "object", "text"} /\ left' \in Seq(Model) /\ insufficient' \in BOOLEAN
               /\ stage' = f
    BY <2>1, PlanAssumption DEF Ask
  <2>2. left # <<>> => Tail(left) \in Seq(Model)
    BY HeadTailProperties DEF PlanTypeOK
  <2>3. Models \in Seq(Model) /\ <<>> \in Seq(Model)
    BY PlanAssumption
  <2> HIDE DEF Model
  <2>4. CASE UNCHANGED planVars
    BY <2>4 DEF PlanTypeOK, planVars, ladder
  <2>5. CASE TryFails \/ Weaken \/ PlannerExhausted \/ FindsInsufficient
    BY <2>2, <2>3, <2>5 DEF PlanTypeOK, TryFails, Weaken, PlannerExhausted, FindsInsufficient, ladder, Model
  <2>6. ASSUME NEW p \in Answers, PlannerAnswers(p) PROVE PlanTypeOK'
    <3>1. plan' \in Rest
      BY <2>6, NormalizedFits DEF PlannerAnswers, PlanTypeOK
    <3> QED BY <2>6, <2>3, <3>1 DEF PlannerAnswers, PlanTypeOK, Ask, ladder, Asking, Model
  <2>7. ASSUME NEW s \in Selections, SelectionAnswers(s) PROVE PlanTypeOK'
    BY <2>7, PlanAssumption DEF SelectionAnswers, PlanTypeOK, ladder
  <2>8. CASE ExtractionExhausted
    <3>1. Len(request.words) \in Int
      BY DEF PlanTypeOK, Request
    <3> QED BY <2>8, <3>1 DEF ExtractionExhausted, PlanTypeOK, Selection, Source, ladder
  <2>9. CASE Transcribe \/ Refuse \/ Chat \/ ResearchFails \/ GroundingExhausted \/ ExpansionAborts
             \/ ExpansionExhausted
    BY <2>9 DEF Transcribe, Refuse, Chat, ResearchFails, GroundingExhausted, ExpansionAborts,
      ExpansionExhausted, End, ladder, PlanTypeOK, Outcome
  <2>10. ASSUME ExpandOrMake, Command # "none"
         PROVE  /\ stage' \in {"expanding", "done"} /\ form' \in {"schema", "object", "text"}
                /\ left' \in Seq(Model) /\ insufficient' \in BOOLEAN /\ outcome' \in Outcome
    BY <2>3, <2>10, Commands DEF ExpandOrMake, Ask, End, ladder, PlanTypeOK, Outcome, Model
  <2>11. CASE StartGeneration
    <3>1. StripDirective(Command, Said, request) \in Prompt
      BY StripType, RequestsAreOwn, EffectivePromptsAreOwn DEF PlanTypeOK, Said
    <3>2. UNCHANGED <<request, plan, selection, made>> /\ prompt' \in Prompt
      BY <2>11, <3>1 DEF StartGeneration
    <3>3. \/ stage' = "researching" /\ UNCHANGED <<form, left, insufficient, outcome>>
          \/ ExpandOrMake /\ Command # "none"
      BY <2>11 DEF StartGeneration, ladder
    <3> QED BY <2>10, <3>2, <3>3 DEF PlanTypeOK, Prompt, Asking, Model
  <2>12. CASE Researched
    BY <2>12, <2>3 DEF Researched, Ask, PlanTypeOK, Asking, Model
  <2>13. CASE Grounded
    <3>1. Command # "none"
      BY <2>13 DEF Grounded, PlanInv, NeedsResearch
    <3>2. UNCHANGED <<request, plan, selection>> /\ made' = made \cup {"grounding"}
          /\ prompt' = <<Rewritten>> /\ ExpandOrMake
      BY <2>13 DEF Grounded
    <3> QED BY <2>10, <3>1, <3>2 DEF PlanTypeOK, Asking, Model
  <2>14. CASE Expanded
    <3>1. Command \in Outcome
      BY <2>14, Commands DEF Expanded, PlanInv, Outcome
    <3> QED BY <2>14, <3>1 DEF Expanded, End, ladder, PlanTypeOK
  <2>15. CASE Done
    BY <2>4, <2>15 DEF Done
  <2> QED BY <2>4, <2>5, <2>6, <2>7, <2>8, <2>9, <2>11, <2>12, <2>13, <2>14, <2>15
          DEF PlanNext, Advance
<1> QED BY <1>1, <1>2, PlanInvInit, PlanInvStep, PTL DEF PlanSpec
==============================================================================
