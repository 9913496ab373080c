---------------------------- MODULE RequestProofs ----------------------------
(***************************************************************************)
(* Proofs about Request: the types, the watch over providers, and what the  *)
(* conversation may hold.                                                  *)
(***************************************************************************)
EXTENDS Request, TLAPS

-----------------------------------------------------------------------------
(* The conversation                                                        *)

\* An append keeps to the limit, adds at the end, and drains at the front.
LEMMA AppendedType ==
  ASSUME history \in Conversation, NEW role \in {"user", "assistant"}, NEW r \in Request
  PROVE  Appended(role, r) \in Conversation
<1> DEFINE longer == Append(history, <<role, r>>)
<1>1. longer \in Seq(Entry) /\ Len(longer) = Len(history) + 1 /\ Len(longer) <= Limit + 1
  BY RequestAssumption DEF Conversation, Entry
<1>2. CASE Len(longer) > Limit
  <2>1. Len(longer) = Limit + 1
    BY <1>1, <1>2, RequestAssumption
  <2>2. /\ SubSeq(longer, 2, Len(longer)) \in Seq(Entry)
        /\ Len(SubSeq(longer, 2, Len(longer))) = Limit
    BY <1>1, <2>1, RequestAssumption
  <2>3. Appended(role, r) = SubSeq(longer, 2, Len(longer))
    BY <1>2, <2>1, RequestAssumption DEF Appended
  <2>4. Appended(role, r) \in Seq(Entry) /\ Len(Appended(role, r)) <= Limit
    BY <2>2, <2>3, RequestAssumption
  <2> QED BY <2>4 DEF Conversation
<1>3. CASE ~(Len(longer) > Limit)
  <2>1. Appended(role, r) = longer
    BY <1>3 DEF Appended
  <2> QED BY <1>1, <1>3, <2>1, RequestAssumption DEF Conversation
<1> QED BY <1>2, <1>3

-----------------------------------------------------------------------------
(* Types                                                                   *)

Outcome == {"nothing", "progress", "result", "error"}

LEMMA RespondType ==
  ASSUME seen \in [Request -> Outcome], answers \in [Request -> Nat],
         NEW r \in Request, NEW what \in Outcome, Respond(r, what)
  PROVE  /\ seen' \in [Request -> Outcome]
         /\ answers' \in [Request -> Nat]
<1>1. CASE Guest(r)
  <2>1. answers' = [answers EXCEPT ![r] = @ + 1]
    BY <1>1 DEF Respond
  <2>2. Shows(r, IF answers[r] = 0 THEN what ELSE seen[r])
    BY <1>1 DEF Respond
  <2> QED BY <2>1, <2>2 DEF Shows
<1>2. CASE ~Guest(r)
  BY <1>2 DEF Respond, Shows
<1> QED BY <1>1, <1>2

THEOREM TypeInvariant == Spec => []TypeOK
<1>1. Init => TypeOK
  BY RequestAssumption DEF Init, TypeOK, Stage, AfterJoin, Kind, Conversation
<1>2. TypeOK /\ [Next]_vars => TypeOK'
  <2> SUFFICES ASSUME TypeOK, [Next]_vars PROVE TypeOK'
    OBVIOUS
  <2> USE DEF TypeOK, Stage, AfterJoin
  <2>0. CASE UNCHANGED vars
    BY <2>0 DEF vars, commandVars, talkVars, tokenVars
  <2>1. ASSUME NEW r \in Request, Dismiss(r) PROVE TypeOK'
    BY <2>1 DEF Dismiss, At, GoTo, Respond, Shows, commandVars, talkVars, tokenVars
  <2>2. ASSUME NEW r \in Request, OpenProgress(r) PROVE TypeOK'
    BY <2>2 DEF OpenProgress, At, GoTo, ShowProgress, OpenTask, Respond, Shows,
                commandVars, talkVars, tokenVars
  <2>3. ASSUME NEW r \in Request, ReturnEarly(r) \/ StopCancelled(r) PROVE TypeOK'
    BY <2>3 DEF ReturnEarly, StopCancelled, Leave, Detach, GoTo, commandVars, talkVars, tokenVars
  <2>4. ASSUME NEW r \in Request, NEW k \in Commands, ExplicitCommand(r, k) PROVE TypeOK'
    <3>1. k \in Kind
      BY RequestAssumption DEF Kind
    <3> QED
      BY <2>4, <3>1 DEF ExplicitCommand, At, GoTo, commandVars, talkVars, tokenVars
  <2>5. ASSUME NEW r \in Request, PlanRefusal(r) \/ PlanVision(r) PROVE TypeOK'
    BY <2>5 DEF PlanRefusal, PlanVision, Join, Close, GoTo, commandVars, talkVars, tokenVars
  <2>6. ASSUME NEW r \in Request, GroundingFails(r) PROVE TypeOK'
    BY <2>6 DEF GroundingFails, Join, Close, GoTo, commandVars, talkVars, tokenVars
  <2>7. ASSUME NEW r \in Request, NEW k \in {"transcribe", "media", "artifact"},
                PlanCommand(r, k)
         PROVE  TypeOK'
    BY <2>7 DEF PlanCommand, Join, Close, GoTo, Kind, commandVars, talkVars, tokenVars
  <2>8. ASSUME NEW r \in Request, PlanAssistant(r) \/ PlanExpansion(r) PROVE TypeOK'
    BY <2>8 DEF PlanAssistant, PlanExpansion, GoTo, commandVars, talkVars, tokenVars
  <2>9. ASSUME NEW r \in Request, Joined(r) \/ ShowText(r) PROVE TypeOK'
    BY <2>9 DEF Joined, ShowText, GoTo, Shows, commandVars, talkVars, tokenVars
  <2>10. ASSUME NEW r \in Request, StoreQuestion(r) PROVE TypeOK'
    BY <2>10, AppendedType DEF StoreQuestion, GoTo, commandVars, talkVars, tokenVars
  <2>11. ASSUME NEW r \in Request, Answered(r) \/ ChatFails(r) PROVE TypeOK'
    BY <2>11 DEF Answered, ChatFails, Join, Close, GoTo, commandVars, talkVars, tokenVars
  <2>12. ASSUME NEW r \in Request, StoreAnswer(r) PROVE history' \in Conversation
    BY <2>12, AppendedType DEF StoreAnswer
  <2>13. ASSUME NEW r \in Request, StoreAnswer(r) PROVE TypeOK'
    <3>1. left' \in [Request -> 0..Parts]
      BY <2>13, RequestAssumption DEF StoreAnswer
    <3> QED
      BY <2>13, <3>1, <2>12 DEF StoreAnswer, GoTo, commandVars, talkVars, tokenVars
  <2>14. ASSUME NEW r \in Request, Deliver(r) PROVE TypeOK'
    <3>1. left' \in [Request -> 0..Parts]
      BY <2>14, RequestAssumption DEF Deliver
    <3>2. pc' \in [Request -> Stage] /\ seen' \in [Request -> {"nothing", "progress", "result", "error"}]
      BY <2>14 DEF Deliver, GoTo, Shows
    <3> QED
      BY <2>14, <3>1, <3>2 DEF Deliver, commandVars, talkVars, tokenVars
  <2>15. ASSUME NEW r \in Request,
                DeliveryFails(r) \/ CommandRefused(r) \/ BeginTranscription(r) \/ Transcribed(r)
         PROVE  TypeOK'
    BY <2>15 DEF DeliveryFails, CommandRefused, BeginTranscription, Transcribed, GoTo, Shows,
                 commandVars, talkVars, tokenVars
  <2>16. <<>> \in Conversation
    BY RequestAssumption DEF Conversation
  <2>17. ASSUME NEW r \in Request, Reply(r) PROVE TypeOK'
    <3>1. history' \in Conversation
      BY <2>17, <2>16 DEF Reply
    <3>2. /\ seen' \in [Request -> Outcome]
          /\ answers' \in [Request -> Nat]
      BY <2>17, RespondType DEF Reply, Outcome
    <3> QED
      BY <2>17, <3>1, <3>2 DEF Reply, GoTo, Outcome, commandVars, talkVars, tokenVars
  <2>18. ASSUME NEW r \in Request, ReplyFails(r) PROVE TypeOK'
    <3>1. history' \in Conversation
      BY <2>18, <2>16 DEF ReplyFails
    <3> QED
      BY <2>18, <3>1 DEF ReplyFails, GoTo, commandVars, talkVars, tokenVars
  <2>19. ASSUME NEW r \in Request, BeginGeneration(r) PROVE TypeOK'
    BY <2>19 DEF BeginGeneration, ShowProgress, OpenTask, Respond, GoTo, Shows,
                 commandVars, talkVars, tokenVars
  <2>20. ASSUME NEW r \in Request, Generated(r) PROVE TypeOK'
    <3>1. left' \in [Request -> 0..Parts]
      BY <2>20, RequestAssumption DEF Generated
    <3> QED
      BY <2>20, <3>1 DEF Generated, Join, Close, GoTo, commandVars, talkVars, tokenVars
  <2>21. ASSUME NEW r \in Request, GenerationFails(r) PROVE TypeOK'
    BY <2>21 DEF GenerationFails, Join, Close, GoTo, commandVars, talkVars, tokenVars
  <2>22. ASSUME NEW r \in Request, PreparationFails(r) PROVE TypeOK'
    BY <2>22 DEF PreparationFails, Detach, GoTo, commandVars, talkVars, tokenVars
  <2>23. ASSUME NEW r \in Request, ShowError(r) \/ ErrorNotShown(r) PROVE TypeOK'
    BY <2>23 DEF ShowError, ErrorNotShown, Respond, GoTo, Shows, commandVars, talkVars, tokenVars
  <2>24. ASSUME NEW r \in Request, TaskStep(r) \/ Delete(r) PROVE TypeOK'
    BY <2>24 DEF TaskStep, ProgressEdit, TaskEnds, GuestTaskGivesUp, LooseEdit, DeletionNoticed,
                 Edited, Delete, commandVars, talkVars, tokenVars
  <2> QED
    BY <2>0, <2>1, <2>2, <2>3, <2>4, <2>5, <2>8, <2>9, <2>10, <2>11, <2>13, <2>14, <2>15,
       <2>17, <2>19, <2>20, <2>21, <2>23, <2>24, <2>6, <2>7, <2>18, <2>22 DEF Next, RequestStep
<1> QED BY <1>1, <1>2, PTL DEF Spec

-----------------------------------------------------------------------------
(* The watch over providers                                                *)

\* Only a few steps of a request move its stage into, or within, the work of a
\* provider; all of them have its progress task open.
THEOREM ProvidersAreWatched == Spec => []ProviderIsWatched
<1>1. Init => ProviderIsWatched
  BY DEF Init, ProviderIsWatched, Working
<1>2. TypeOK /\ ProviderIsWatched /\ [Next]_vars => ProviderIsWatched'
  <2> SUFFICES ASSUME TypeOK, ProviderIsWatched, [Next]_vars,
                      NEW q \in Request, ~Guest(q)', Working(q)', ~cancelled'[q]
               PROVE  task'[q] = "open"
    BY DEF ProviderIsWatched
  <2> USE DEF TypeOK, ProviderIsWatched, Working, Guest, At, GoTo
  <2>0. CASE UNCHANGED vars
    BY <2>0 DEF vars, tokenVars
  <2>1. ASSUME NEW r \in Request, Dismiss(r) PROVE task'[q] = "open"
    BY <2>1 DEF Dismiss, tokenVars
  <2>2. ASSUME NEW r \in Request, OpenProgress(r) PROVE task'[q] = "open"
    BY <2>2 DEF OpenProgress, ShowProgress, OpenTask, tokenVars
  <2>3. ASSUME NEW r \in Request, ReturnEarly(r) PROVE task'[q] = "open"
    BY <2>3 DEF ReturnEarly, Leave, Detach, tokenVars
  <2>4. ASSUME NEW r \in Request, StopCancelled(r) PROVE task'[q] = "open"
    BY <2>4 DEF StopCancelled, Leave, Detach, tokenVars
  <2>5. ASSUME NEW r \in Request, NEW k \in Commands, ExplicitCommand(r, k)
        PROVE  task'[q] = "open"
    BY <2>5 DEF ExplicitCommand, tokenVars
  <2>6. ASSUME NEW r \in Request, NEW stage \in {"refusing", "describing", "polishing",
                 "delivering", "erring", "commanding"},
               Join(r, stage), UNCHANGED <<mode, cancelled>>
        PROVE  task'[q] = "open"
    BY <2>6 DEF Join, Close
  <2>7. ASSUME NEW r \in Request, PlanRefusal(r) \/ PlanVision(r) \/ GroundingFails(r)
        PROVE  task'[q] = "open"
    BY <2>7, <2>6 DEF PlanRefusal, PlanVision, GroundingFails, tokenVars
  <2>8. ASSUME NEW r \in Request, NEW k \in Kind, PlanCommand(r, k)
        PROVE  task'[q] = "open"
    BY <2>8, <2>6 DEF PlanCommand, tokenVars
  <2>9. ASSUME NEW r \in Request, PlanExpansion(r) \/ PlanAssistant(r) \/ StoreQuestion(r)
        PROVE  task'[q] = "open"
    BY <2>9 DEF PlanExpansion, PlanAssistant, StoreQuestion, tokenVars
  <2>10. ASSUME NEW r \in Request,
                Answered(r) \/ ChatFails(r) \/ Generated(r) \/ GenerationFails(r)
         PROVE  task'[q] = "open"
    BY <2>10, <2>6 DEF Answered, ChatFails, Generated, GenerationFails, tokenVars
  <2>11. ASSUME NEW r \in Request, Joined(r) PROVE task'[q] = "open"
    BY <2>11 DEF Joined, AfterJoin, tokenVars
  <2>12. ASSUME NEW r \in Request, ShowText(r) \/ StoreAnswer(r) \/ DeliveryFails(r)
         PROVE  task'[q] = "open"
    BY <2>12 DEF ShowText, StoreAnswer, DeliveryFails, tokenVars
  <2>13. ASSUME NEW r \in Request, Deliver(r) PROVE task'[q] = "open"
    BY <2>13 DEF Deliver, tokenVars
  <2>14. ASSUME NEW r \in Request, CommandRefused(r) \/ Reply(r) \/ ReplyFails(r)
         PROVE  task'[q] = "open"
    BY <2>14 DEF CommandRefused, Reply, ReplyFails, tokenVars
  <2>15. ASSUME NEW r \in Request, BeginTranscription(r) \/ Transcribed(r)
         PROVE  task'[q] = "open"
    BY <2>15 DEF BeginTranscription, Transcribed, tokenVars
  <2>16. ASSUME NEW r \in Request, BeginGeneration(r) PROVE task'[q] = "open"
    BY <2>16 DEF BeginGeneration, ShowProgress, OpenTask, tokenVars
  <2>17. ASSUME NEW r \in Request, PreparationFails(r) PROVE task'[q] = "open"
    BY <2>17 DEF PreparationFails, Detach, tokenVars
  <2>18. ASSUME NEW r \in Request, ShowError(r) \/ ErrorNotShown(r)
         PROVE  task'[q] = "open"
    BY <2>18 DEF ShowError, ErrorNotShown, tokenVars
  <2>19. ASSUME NEW r \in Request, ProgressEdit(r) \/ TaskEnds(r) \/ LooseEdit(r)
         PROVE  task'[q] = "open"
    BY <2>19 DEF ProgressEdit, TaskEnds, LooseEdit, tokenVars
  <2>20. ASSUME NEW r \in Request, GuestTaskGivesUp(r) PROVE task'[q] = "open"
    BY <2>20 DEF GuestTaskGivesUp, tokenVars
  <2>21. ASSUME NEW r \in Request, DeletionNoticed(r) \/ Delete(r)
         PROVE  task'[q] = "open"
    BY <2>21 DEF DeletionNoticed, Delete
  <2>22. {"transcribe", "media", "artifact"} \subseteq Kind
    BY DEF Kind
  <2> QED
    BY <2>0, <2>1, <2>2, <2>3, <2>4, <2>5, <2>7, <2>8, <2>9, <2>10, <2>11, <2>12, <2>13, <2>14,
       <2>15, <2>16, <2>17, <2>18, <2>19, <2>20, <2>21, <2>22 DEF Next, RequestStep, TaskStep
<1> QED BY <1>1, <1>2, TypeInvariant, PTL DEF Spec

-----------------------------------------------------------------------------
(* What the conversation holds                                             *)

\* An append puts its entry last; entries keep their places, or all move by one
\* in a conversation that is full and stays so.
LEMMA AppendedShape ==
  ASSUME history \in Conversation, NEW role \in {"user", "assistant"}, NEW r \in Request,
         NEW h, h = Appended(role, r)
  PROVE  \/ /\ Len(h) = Len(history) + 1
            /\ h[Len(h)] = <<role, r>>
            /\ \A i \in 1..Len(history) : h[i] = history[i]
         \/ /\ Len(history) = Limit /\ Len(h) = Limit
            /\ h[Limit] = <<role, r>>
            /\ \A i \in 1..(Limit - 1) : h[i] = history[i + 1]
<1> DEFINE longer == Append(history, <<role, r>>)
<1>1. /\ longer \in Seq(Entry) /\ Len(longer) = Len(history) + 1
      /\ longer[Len(longer)] = <<role, r>>
      /\ \A i \in 1..Len(history) : longer[i] = history[i]
      /\ Len(history) \in 0..Limit
  BY RequestAssumption DEF Conversation, Entry
<1>2. CASE Len(longer) > Limit
  <2>1. Len(longer) = Limit + 1 /\ Len(history) = Limit
    BY <1>1, <1>2, RequestAssumption
  <2>2. /\ Len(SubSeq(longer, 2, Len(longer))) = Limit
        /\ \A i \in 1..Limit : SubSeq(longer, 2, Len(longer))[i] = longer[i + 1]
    <3> HIDE DEF longer
    <3>1. longer \in Seq(Entry) /\ Len(longer) = Limit + 1 /\ Limit \in Nat \ {0}
      BY <1>1, <2>1, RequestAssumption
    <3>2. Len(SubSeq(longer, 2, Len(longer))) = Limit
      BY <3>1
    <3>3. ASSUME NEW i \in 1..Limit
          PROVE  SubSeq(longer, 2, Len(longer))[i] = longer[i + 1]
      BY <3>1
    <3> QED BY <3>2, <3>3
  <2>3. h = SubSeq(longer, 2, Len(longer))
    <3>1. h = SubSeq(longer, Len(longer) - Limit + 1, Len(longer))
      BY <1>2 DEF Appended
    <3>2. Len(longer) - Limit + 1 = 2
      BY <2>1, RequestAssumption
    <3> HIDE DEF longer
    <3> QED BY <3>1, <3>2
  <2> HIDE DEF longer
  <2>4. Limit \in 1..Limit /\ h[Limit] = longer[Limit + 1]
    BY <2>2, <2>3, RequestAssumption
  <2>5. h[Limit] = <<role, r>>
    BY <1>1, <2>1, <2>4
  <2>6. ASSUME NEW i \in 1..(Limit - 1) PROVE h[i] = history[i + 1]
    <3>1. i \in 1..Limit /\ i + 1 \in 1..Len(history)
      BY <2>1, RequestAssumption
    <3> QED BY <1>1, <2>2, <2>3, <3>1
  <2>7. Len(h) = Limit
    BY <2>2, <2>3
  <2> QED BY <2>1, <2>5, <2>6, <2>7
<1>3. CASE ~(Len(longer) > Limit)
  <2>1. h = longer
    BY <1>3 DEF Appended
  <2> QED BY <1>1, <2>1
<1> QED BY <1>2, <1>3

\* The conversation changes by an append of the request's own, or by /new.
LEMMA HistoryStep ==
  ASSUME [Next]_vars
  PROVE  \/ history' = history
         \/ history' = <<>> /\ \E r \in Request : kind[r] = "new"
         \/ \E r \in Request : StoreQuestion(r) \/ StoreAnswer(r)
<1> USE DEF talkVars
<1>1. CASE UNCHANGED vars
  BY <1>1 DEF vars
<1>2. ASSUME NEW r \in Request, RequestStep(r)
      PROVE  \/ history' = history
             \/ history' = <<>> /\ kind[r] = "new"
             \/ StoreQuestion(r) \/ StoreAnswer(r)
  BY <1>2 DEF RequestStep, Dismiss, OpenProgress, ReturnEarly, StopCancelled, ExplicitCommand,
     PlanRefusal, PlanVision, PlanAssistant, GroundingFails, PlanExpansion, PlanCommand, Joined,
     ShowText, Answered, ChatFails, Deliver, DeliveryFails, CommandRefused, Reply, ReplyFails,
     BeginTranscription, Transcribed, BeginGeneration, Generated, GenerationFails,
     PreparationFails, ShowError, ErrorNotShown
<1>3. ASSUME NEW r \in Request, TaskStep(r) \/ Delete(r)
      PROVE  history' = history
  BY <1>3 DEF TaskStep, Delete, ProgressEdit, TaskEnds, GuestTaskGivesUp, LooseEdit,
              DeletionNoticed
<1> QED BY <1>1, <1>2, <1>3 DEF Next

\* How a request comes to the stages at which its entries are written.
LEMMA StageStep ==
  ASSUME TypeOK, [Next]_vars, NEW q \in Request
  PROVE  /\ pc'[q] = "new" => pc[q] = "new"
         /\ pc'[q] = "preparing" => pc[q] \in {"new", "preparing"}
         /\ pc'[q] = "asking" => pc[q] \in {"preparing", "asking"}
         /\ pc'[q] = "chatting" => pc[q] = "chatting" \/ StoreQuestion(q)
         /\ pc'[q] = "joining" /\ then'[q] = "polishing" =>
              pc[q] = "chatting" \/ (pc[q] = "joining" /\ then[q] = "polishing")
         /\ pc'[q] = "polishing" =>
              pc[q] = "polishing" \/ (pc[q] = "joining" /\ then[q] = "polishing")
<1> DEFINE Goal ==
         /\ pc'[q] = "new" => pc[q] = "new"
         /\ pc'[q] = "preparing" => pc[q] \in {"new", "preparing"}
         /\ pc'[q] = "asking" => pc[q] \in {"preparing", "asking"}
         /\ pc'[q] = "chatting" => pc[q] = "chatting" \/ StoreQuestion(q)
         /\ pc'[q] = "joining" /\ then'[q] = "polishing" =>
              pc[q] = "chatting" \/ (pc[q] = "joining" /\ then[q] = "polishing")
         /\ pc'[q] = "polishing" =>
              pc[q] = "polishing" \/ (pc[q] = "joining" /\ then[q] = "polishing")
<1> USE DEF TypeOK, At, GoTo
<1>1. CASE UNCHANGED <<pc, then>>
  BY <1>1
<1>3. ASSUME NEW r \in Request, NEW stage \in AfterJoin, Join(r, stage),
             stage = "polishing" => pc[r] = "chatting"
      PROVE  Goal
  BY <1>3 DEF Join, AfterJoin
<1>4. ASSUME NEW r \in Request,
             \/ Dismiss(r) \/ OpenProgress(r) \/ ReturnEarly(r) \/ StopCancelled(r)
             \/ \E k \in Commands : ExplicitCommand(r, k)
      PROVE  Goal
  BY <1>4 DEF Dismiss, OpenProgress, ShowProgress, ReturnEarly, StopCancelled, Leave, ExplicitCommand
<1>5. ASSUME NEW r \in Request,
             \/ PlanRefusal(r) \/ PlanVision(r) \/ GroundingFails(r)
             \/ \E k \in {"transcribe", "media", "artifact"} : PlanCommand(r, k)
             \/ Answered(r) \/ ChatFails(r) \/ Generated(r) \/ GenerationFails(r)
      PROVE  Goal
  BY <1>5, <1>3 DEF PlanRefusal, PlanVision, GroundingFails, PlanCommand, Answered, ChatFails,
                    Generated, GenerationFails, AfterJoin
<1>6. ASSUME NEW r \in Request,
             \/ PlanExpansion(r) \/ PlanAssistant(r) \/ StoreQuestion(r) \/ StoreAnswer(r)
             \/ Joined(r) \/ ShowText(r)
      PROVE  Goal
  BY <1>6 DEF PlanExpansion, PlanAssistant, StoreQuestion, StoreAnswer, Joined, ShowText, AfterJoin
<1>7. ASSUME NEW r \in Request, Deliver(r) \/ DeliveryFails(r)
      PROVE  Goal
  BY <1>7 DEF Deliver, DeliveryFails
<1>8. ASSUME NEW r \in Request,
             \/ CommandRefused(r) \/ Reply(r) \/ ReplyFails(r)
             \/ BeginTranscription(r) \/ Transcribed(r)
      PROVE  Goal
  BY <1>8 DEF CommandRefused, Reply, ReplyFails, BeginTranscription, Transcribed
<1>9. ASSUME NEW r \in Request,
             \/ BeginGeneration(r) \/ PreparationFails(r) \/ ShowError(r) \/ ErrorNotShown(r)
      PROVE  Goal
  BY <1>9 DEF BeginGeneration, ShowProgress, PreparationFails, ShowError, ErrorNotShown
<1>10. ASSUME NEW r \in Request, TaskStep(r) \/ Delete(r)
       PROVE  UNCHANGED <<pc, then>>
  BY <1>10 DEF TaskStep, Delete, ProgressEdit, TaskEnds, GuestTaskGivesUp, LooseEdit,
               DeletionNoticed
<1> QED
  BY <1>1, <1>4, <1>5, <1>6, <1>7, <1>8, <1>9, <1>10 DEF Next, RequestStep, vars

\* A request that has not stored its question has no entry in the conversation.
UnaskedInv ==
  \A r \in Request :
    /\ pc[r] \in {"new", "preparing", "asking"} =>
         \A i \in DOMAIN history : history[i][2] # r
    /\ \A i \in DOMAIN snapshot[r] : snapshot[r][i] # <<"user", r>>

\* The entries after an append are the entries before, and the new one.
LEMMA AppendedEntries ==
  ASSUME history \in Conversation, NEW role \in {"user", "assistant"}, NEW r \in Request,
         history' = Appended(role, r), history' \in Conversation
  PROVE  \A i \in DOMAIN history' :
           history'[i] = <<role, r>> \/ \E j \in DOMAIN history : history'[i] = history[j]
<1> SUFFICES ASSUME NEW i \in DOMAIN history'
             PROVE  history'[i] = <<role, r>> \/ \E j \in DOMAIN history : history'[i] = history[j]
  OBVIOUS
<1>1. /\ DOMAIN history = 1..Len(history) /\ DOMAIN history' = 1..Len(history')
      /\ Len(history) \in Nat
  BY DEF Conversation
<1> DEFINE h == history'
<1>2. \/ /\ Len(h) = Len(history) + 1
         /\ h[Len(h)] = <<role, r>>
         /\ \A k \in 1..Len(history) : h[k] = history[k]
      \/ /\ Len(history) = Limit /\ Len(h) = Limit
         /\ h[Limit] = <<role, r>>
         /\ \A k \in 1..(Limit - 1) : h[k] = history[k + 1]
  BY AppendedShape
<1>3. CASE /\ Len(h) = Len(history) + 1
           /\ h[Len(h)] = <<role, r>>
           /\ \A k \in 1..Len(history) : h[k] = history[k]
  <2>1. i = Len(h) \/ i \in 1..Len(history)
    BY <1>1, <1>3
  <2> QED BY <1>1, <1>3, <2>1
<1>4. CASE /\ Len(history) = Limit /\ Len(h) = Limit
           /\ h[Limit] = <<role, r>>
           /\ \A k \in 1..(Limit - 1) : h[k] = history[k + 1]
  <2>1. i = Limit \/ (i \in 1..(Limit - 1) /\ i + 1 \in 1..Len(history))
    BY <1>1, <1>4, RequestAssumption
  <2> QED BY <1>1, <1>4, <2>1
<1> QED BY <1>2, <1>3, <1>4

\* snapshot changes where the history is read.
LEMMA SnapshotStep ==
  ASSUME [Next]_vars
  PROVE  snapshot' = snapshot \/ \E r \in Request : PlanAssistant(r)
<1> USE DEF talkVars
<1>1. CASE UNCHANGED vars
  BY <1>1 DEF vars
<1>2. ASSUME NEW r \in Request, RequestStep(r)
      PROVE  snapshot' = snapshot \/ PlanAssistant(r)
  <2>1. CASE \/ Dismiss(r) \/ OpenProgress(r) \/ ReturnEarly(r) \/ StopCancelled(r)
             \/ \E k \in Commands : ExplicitCommand(r, k)
             \/ PlanRefusal(r) \/ PlanVision(r) \/ GroundingFails(r) \/ PlanExpansion(r)
             \/ \E k \in {"transcribe", "media", "artifact"} : PlanCommand(r, k)
             \/ Joined(r) \/ ShowText(r)
    BY <2>1 DEF Dismiss, OpenProgress, ReturnEarly, StopCancelled, ExplicitCommand,
       PlanRefusal, PlanVision, GroundingFails, PlanExpansion, PlanCommand, Joined, ShowText
  <2>2. CASE \/ StoreQuestion(r) \/ Answered(r) \/ ChatFails(r) \/ StoreAnswer(r)
             \/ Deliver(r) \/ DeliveryFails(r)
    BY <2>2 DEF StoreQuestion, Answered, ChatFails, StoreAnswer, Deliver, DeliveryFails
  <2>3. CASE \/ CommandRefused(r) \/ Reply(r) \/ ReplyFails(r)
             \/ BeginTranscription(r) \/ Transcribed(r)
             \/ BeginGeneration(r) \/ Generated(r) \/ GenerationFails(r) \/ PreparationFails(r)
             \/ ShowError(r) \/ ErrorNotShown(r)
    BY <2>3 DEF CommandRefused, Reply, ReplyFails, BeginTranscription, Transcribed,
       BeginGeneration, Generated, GenerationFails, PreparationFails, ShowError, ErrorNotShown
  <2> QED BY <1>2, <2>1, <2>2, <2>3 DEF RequestStep
<1>3. ASSUME NEW r \in Request, TaskStep(r) \/ Delete(r)
      PROVE  snapshot' = snapshot
  BY <1>3 DEF TaskStep, Delete, ProgressEdit, TaskEnds, GuestTaskGivesUp, LooseEdit,
              DeletionNoticed
<1> QED BY <1>1, <1>2, <1>3 DEF Next

\* No question is in the history its own request gives to the model.
THEOREM QuestionsAreAskedOnce == Spec => []QuestionAskedOnce
<1>1. Init => UnaskedInv
  <2> SUFFICES ASSUME Init PROVE UnaskedInv
    OBVIOUS
  <2>1. history = <<>> /\ \A r \in Request : snapshot[r] = <<>>
    BY DEF Init
  <2>2. \A i \in DOMAIN <<>> : FALSE
    OBVIOUS
  <2>3. /\ \A i \in DOMAIN history : FALSE
        /\ \A r \in Request : \A i \in DOMAIN snapshot[r] : FALSE
    BY <2>1, <2>2
  <2> QED BY <2>3 DEF UnaskedInv
<1>2. TypeOK /\ TypeOK' /\ UnaskedInv /\ [Next]_vars => UnaskedInv'
  <2> SUFFICES ASSUME TypeOK, TypeOK', UnaskedInv, [Next]_vars, NEW q \in Request
               PROVE  /\ pc'[q] \in {"new", "preparing", "asking"} =>
                           \A i \in DOMAIN history' : history'[i][2] # q
                      /\ \A i \in DOMAIN snapshot'[q] : snapshot'[q][i] # <<"user", q>>
    BY DEF UnaskedInv
  <2>1. ASSUME pc'[q] \in {"new", "preparing", "asking"}
        PROVE  \A i \in DOMAIN history' : history'[i][2] # q
    <3>1. /\ pc[q] \in {"new", "preparing", "asking"}
          /\ \A i \in DOMAIN history : history[i][2] # q
      BY <2>1, StageStep DEF UnaskedInv
    <3>2. CASE history' = history
      BY <3>1, <3>2
    <3>3. CASE history' = <<>>
      BY <3>3
    <3>4. ASSUME NEW r \in Request, StoreQuestion(r) \/ StoreAnswer(r)
          PROVE  \A i \in DOMAIN history' : history'[i][2] # q
      <4>1. r # q
        BY <2>1, <3>1, <3>4 DEF StoreQuestion, StoreAnswer, At, GoTo, TypeOK
      <4>2. PICK role \in {"user", "assistant"} : history' = Appended(role, r)
        BY <3>4 DEF StoreQuestion, StoreAnswer
      <4>3. \A i \in DOMAIN history' :
              history'[i] = <<role, r>> \/ \E j \in DOMAIN history : history'[i] = history[j]
        BY <4>2, AppendedEntries DEF TypeOK
      <4> QED BY <3>1, <4>1, <4>3
    <3> QED BY <3>2, <3>3, <3>4, HistoryStep
  <2>2. \A i \in DOMAIN snapshot'[q] : snapshot'[q][i] # <<"user", q>>
    <3>1. CASE snapshot' = snapshot
      BY <3>1 DEF UnaskedInv
    <3>2. ASSUME NEW r \in Request, PlanAssistant(r)
          PROVE  \A i \in DOMAIN snapshot'[q] : snapshot'[q][i] # <<"user", q>>
      <4>1. CASE r = q
        <5>1. snapshot'[q] = history /\ \A i \in DOMAIN history : history[i][2] # q
          BY <3>2, <4>1 DEF PlanAssistant, At, UnaskedInv, TypeOK
        <5> QED BY <5>1
      <4>2. CASE r # q
        BY <3>2, <4>2 DEF PlanAssistant, UnaskedInv, TypeOK
      <4> QED BY <4>1, <4>2
    <3> QED BY <3>1, <3>2, SnapshotStep
  <2> QED BY <2>1, <2>2
<1>3. UnaskedInv => QuestionAskedOnce
  BY DEF UnaskedInv, QuestionAskedOnce
<1> QED BY <1>1, <1>2, <1>3, TypeInvariant, PTL DEF Spec

-----------------------------------------------------------------------------
(* Answers behind questions                                                *)

HasQuestion(q) == \E j \in 1..Len(history) : history[j] = <<"user", q>>
Full == Len(history) = Limit

\* An answer under way: the question is stored, the answer is not.
Asked(q) == pc[q] \in {"chatting", "polishing"} \/ (pc[q] = "joining" /\ then[q] = "polishing")

\* While a request's answer is under way its question is there, or drained.
ExchangeInv ==
  MayBeCleared \/ ((\A q \in Request : Asked(q) => HasQuestion(q) \/ Full) /\ AnswersBehind)

\* Where a request is that runs /new.
NewInv == \A q \in Request : kind[q] = "new" => pc[q] \in {"commanding", "erring", "done"}

\* Such a request goes on as one, and comes to no other stage.
LEMMA NewStaysNew ==
  ASSUME [Next]_vars, TypeOK, NewInv, NEW q \in Request
  PROVE  /\ kind[q] = "new" => kind'[q] = "new"
         /\ kind'[q] = "new" => pc'[q] \in {"commanding", "erring", "done"}
<1> USE DEF commandVars, TypeOK, NewInv, At, GoTo
<1> DEFINE Goal == /\ kind[q] = "new" => kind'[q] = "new"
                   /\ kind'[q] = "new" => pc'[q] \in {"commanding", "erring", "done"}
<1>1. CASE UNCHANGED <<pc, kind>>
  BY <1>1
<1>2. ASSUME NEW r \in Request,
             Dismiss(r) \/ OpenProgress(r) \/ ReturnEarly(r) \/ StopCancelled(r)
      PROVE  Goal
  BY <1>2 DEF Dismiss, OpenProgress, ShowProgress, ReturnEarly, StopCancelled, Leave
<1>3. ASSUME NEW r \in Request, NEW k \in Commands, ExplicitCommand(r, k)
      PROVE  Goal
  BY <1>3 DEF ExplicitCommand
<1>4. ASSUME NEW r \in Request, NEW k \in {"transcribe", "media", "artifact"}, PlanCommand(r, k)
      PROVE  Goal
  BY <1>4 DEF PlanCommand, Join
<1>5. ASSUME NEW r \in Request,
             \/ PlanRefusal(r) \/ PlanVision(r) \/ PlanAssistant(r) \/ GroundingFails(r)
             \/ PlanExpansion(r) \/ Joined(r) \/ ShowText(r)
      PROVE  Goal
  BY <1>5 DEF PlanRefusal, PlanVision, PlanAssistant, GroundingFails, PlanExpansion, Join, Joined, ShowText
<1>6. ASSUME NEW r \in Request,
             \/ StoreQuestion(r) \/ Answered(r) \/ ChatFails(r) \/ StoreAnswer(r)
             \/ Deliver(r) \/ DeliveryFails(r)
      PROVE  Goal
  BY <1>6 DEF StoreQuestion, Answered, ChatFails, Join, StoreAnswer, Deliver, DeliveryFails
<1>7. ASSUME NEW r \in Request,
             \/ CommandRefused(r) \/ Reply(r) \/ ReplyFails(r)
             \/ ShowError(r) \/ ErrorNotShown(r)
      PROVE  Goal
  BY <1>7 DEF CommandRefused, Reply, ReplyFails, ShowError, ErrorNotShown
<1>8. ASSUME NEW r \in Request,
             \/ BeginTranscription(r) \/ Transcribed(r) \/ BeginGeneration(r)
             \/ Generated(r) \/ GenerationFails(r) \/ PreparationFails(r)
      PROVE  Goal
  BY <1>8 DEF BeginTranscription, Transcribed, BeginGeneration, ShowProgress, Generated,
              GenerationFails, Join, PreparationFails
<1>9. ASSUME NEW r \in Request, TaskStep(r) \/ Delete(r)
      PROVE  Goal
  BY <1>9, <1>1 DEF TaskStep, Delete, ProgressEdit, TaskEnds, GuestTaskGivesUp, LooseEdit,
                    DeletionNoticed
<1> QED BY <1>1, <1>2, <1>3, <1>4, <1>5, <1>6, <1>7, <1>8, <1>9 DEF Next, RequestStep, vars

\* A question that is there stays, unless the append drains.
LEMMA QuestionStays ==
  ASSUME history \in Conversation, NEW role \in {"user", "assistant"}, NEW r \in Request,
         history' = Appended(role, r), history' \in Conversation,
         NEW q \in Request, HasQuestion(q) \/ Full
  PROVE  HasQuestion(q)' \/ Full'
<1>1. Len(history) \in Nat /\ Len(history') <= Limit /\ Len(history') \in Nat
  BY DEF Conversation
<1>2. CASE Len(history') = Limit
  BY <1>2 DEF Full
<1>3. CASE Len(history') # Limit
  <2>1. /\ Len(history') = Len(history) + 1
        /\ \A i \in 1..Len(history) : history'[i] = history[i]
    BY <1>3, AppendedShape
  <2>2. HasQuestion(q)
    BY <1>1, <2>1, RequestAssumption DEF Full
  <2>3. PICK j \in 1..Len(history) : history[j] = <<"user", q>>
    BY <2>2 DEF HasQuestion
  <2>4. j \in 1..Len(history') /\ history'[j] = <<"user", q>>
    BY <1>1, <2>1, <2>3
  <2> QED BY <2>4 DEF HasQuestion
<1> QED BY <1>2, <1>3

\* A question is there when it has been stored.
LEMMA StoredIsThere ==
  ASSUME history \in Conversation, history' \in Conversation,
         NEW r \in Request, StoreQuestion(r)
  PROVE  HasQuestion(r)'
<1>1. history' = Appended("user", r)
  BY DEF StoreQuestion
<1>2. /\ history'[Len(history')] = <<"user", r>>
      /\ Len(history') \in 1..Len(history')
  BY <1>1, AppendedShape, RequestAssumption DEF Conversation
<1> QED BY <1>2 DEF HasQuestion

\* An append keeps the answers behind their questions, if it appends an answer
\* whose question is there.
LEMMA AnswersStayBehind ==
  ASSUME history \in Conversation, NEW role \in {"user", "assistant"}, NEW r \in Request,
         history' = Appended(role, r), history' \in Conversation,
         AnswersBehind,
         role = "assistant" => HasQuestion(r) \/ Full
  PROVE  AnswersBehind'
<1>1. Len(history) \in Nat /\ Len(history') <= Limit /\ Len(history') \in Nat
  BY DEF Conversation
<1>2. CASE Len(history') = Limit
  BY <1>2 DEF AnswersBehind
<1>3. CASE Len(history') # Limit
  <2>1. /\ Len(history') = Len(history) + 1
        /\ history'[Len(history')] = <<role, r>>
        /\ \A i \in 1..Len(history) : history'[i] = history[i]
    BY <1>3, AppendedShape
  <2>2. DOMAIN history' = 1..Len(history') /\ DOMAIN history = 1..Len(history) /\ ~Full
    BY <1>1, <2>1, RequestAssumption DEF Full, Conversation
  <2> SUFFICES ASSUME NEW q \in Request, NEW i \in 1..Len(history'),
                      history'[i] = <<"assistant", q>>
               PROVE  \E j \in 1..(i - 1) : history'[j] = <<"user", q>>
    BY <2>2 DEF AnswersBehind
  <2>3. CASE i = Len(history')
    <3>1. role = "assistant" /\ r = q
      BY <2>1, <2>3
    <3>2. PICK j \in 1..Len(history) : history[j] = <<"user", q>>
      BY <2>2, <3>1 DEF HasQuestion
    <3> QED BY <1>1, <2>1, <2>3, <3>2
  <2>4. CASE i # Len(history')
    <3>1. i \in 1..Len(history) /\ history[i] = <<"assistant", q>>
      BY <1>1, <2>1, <2>4
    <3>2. PICK j \in 1..(i - 1) : history[j] = <<"user", q>>
      BY <2>2, <3>1 DEF AnswersBehind, Full
    <3> QED BY <1>1, <2>1, <3>1, <3>2
  <2> QED BY <2>3, <2>4
<1> QED BY <1>2, <1>3

\* An answer in the conversation comes behind its question, unless the conversation
\* is full and the question was drained, or /new has cleared it.
THEOREM AnswersComeBehind == Spec => []AnswerBehindQuestion
<1>1. Init => NewInv /\ ExchangeInv
  BY RequestAssumption DEF Init, NewInv, ExchangeInv, Asked, AnswersBehind
<1>2. TypeOK /\ NewInv /\ [Next]_vars => NewInv'
  BY NewStaysNew DEF NewInv
<1>3. TypeOK /\ TypeOK' /\ NewInv /\ ExchangeInv /\ [Next]_vars => ExchangeInv'
  <2> SUFFICES ASSUME TypeOK, TypeOK', NewInv, ExchangeInv, [Next]_vars, ~MayBeCleared'
               PROVE  ExchangeInv'
    BY DEF ExchangeInv
  <2>1. ~MayBeCleared
    BY NewStaysNew DEF MayBeCleared
  <2>2. CASE history' = history
    <3>1. AnswersBehind'
      BY <2>1, <2>2 DEF ExchangeInv, AnswersBehind
    <3>2. ASSUME NEW q \in Request, Asked(q)' PROVE HasQuestion(q)' \/ Full'
      <4>1. CASE Asked(q)
        BY <2>1, <2>2, <4>1 DEF ExchangeInv, HasQuestion, Full
      <4>2. CASE StoreQuestion(q)
        BY <4>2, StoredIsThere DEF TypeOK
      <4> QED BY <3>2, <4>1, <4>2, StageStep DEF Asked
    <3> QED BY <3>1, <3>2 DEF ExchangeInv
  <2>3. ASSUME NEW r \in Request, StoreQuestion(r) \/ StoreAnswer(r) PROVE ExchangeInv'
    <3>1. PICK role \in {"user", "assistant"} :
            history' = Appended(role, r) /\ (role = "assistant" => pc[r] = "polishing")
      BY <2>3 DEF StoreQuestion, StoreAnswer, At
    <3>2. AnswersBehind'
      BY <2>1, <3>1, AnswersStayBehind DEF ExchangeInv, Asked, TypeOK
    <3>3. ASSUME NEW q \in Request, Asked(q)' PROVE HasQuestion(q)' \/ Full'
      <4>1. CASE Asked(q)
        BY <2>1, <3>1, <4>1, QuestionStays DEF ExchangeInv, TypeOK
      <4>2. CASE StoreQuestion(q)
        BY <4>2, StoredIsThere DEF TypeOK
      <4> QED BY <3>3, <4>1, <4>2, StageStep DEF Asked
    <3> QED BY <3>2, <3>3 DEF ExchangeInv
  <2> QED BY <2>1, <2>2, <2>3, HistoryStep DEF MayBeCleared
<1>4. ExchangeInv => AnswerBehindQuestion
  BY DEF ExchangeInv, AnswerBehindQuestion
<1> QED BY <1>1, <1>2, <1>3, <1>4, TypeInvariant, PTL DEF Spec

-----------------------------------------------------------------------------
(* What the caller is shown at last                                        *)

\* The stages in which no progress task of the request may still edit: it has none, or
\* it was joined, or left behind.
Settled == {"new", "polishing", "delivering", "refusing", "describing", "commanding",
            "transcribing", "erring", "done"}

\* A request that was not taken up has no task and no command; a join leads on; and
\* what the caller is shown at last is shown by the step that ends the request.
HandedOver(r) ==
  /\ pc[r] = "new" => task[r] = "none" /\ kind[r] = "none"
  /\ pc[r] = "joining" => then[r] # "done"
  /\ pc[r] \in Settled => task[r] \in {"none", "ended"}
  /\ seen[r] \in {"result", "error"} => pc[r] = "done"

Told(r) ==
  /\ pc[r] # "done" /\ pc'[r] = "done" /\ ~cancelled[r]
  /\ task[r] # "none" \/ kind[r] # "none"
  /\ failing \subseteq {"provider"} /\ pc[r] \notin {"describing", "expanding"} /\ answers'[r] <= 1
  => seen'[r] \in {"result", "error"}

Final(r) == seen[r] \in {"result", "error"} /\ ~loose[r] => seen'[r] = seen[r]

HandoverInv == \A r \in Request : HandedOver(r)

\* The first answer to a guest's query is what its caller sees.
LEMMA FirstAnswerIsSeen ==
  ASSUME TypeOK, NEW r \in Request, NEW what \in {"result", "error"}, Respond(r, what)
  PROVE  /\ answers'[r] <= 1 => seen'[r] = what
         /\ \A q \in Request \ {r} : seen'[q] = seen[q] /\ answers'[q] = answers[q]
<1>1. answers[r] \in Nat /\ (answers[r] + 1 <= 1 => answers[r] = 0)
  BY DEF TypeOK
<1>2. CASE Guest(r)
  BY <1>1, <1>2 DEF Respond, Shows, TypeOK
<1>3. CASE ~Guest(r)
  BY <1>3 DEF Respond, Shows, TypeOK
<1> QED BY <1>2, <1>3

\* Every step keeps to the stages above, tells a caller whose request it ends, and
\* leaves what was shown at last.
LEMMA HandoverStep ==
  ASSUME TypeOK, HandoverInv, [Next]_vars, NEW q \in Request
  PROVE  HandedOver(q)' /\ Told(q) /\ Final(q)
<1> DEFINE Goal == HandedOver(q)' /\ Told(q) /\ Final(q)
<1>0. HandedOver(q) /\ pc[q] \in Stage
  BY DEF HandoverInv, TypeOK
<1> USE <1>0 DEF TypeOK, HandedOver, Told, Final, Settled, Stage, At, GoTo,
                 commandVars, talkVars, tokenVars
<1>1. CASE UNCHANGED vars
  BY <1>1 DEF vars
<1>2. ASSUME NEW r \in Request, Dismiss(r) PROVE Goal
  <2>1. CASE UNCHANGED <<seen, answers>>
    BY <1>2, <2>1 DEF Dismiss
  <2>2. CASE Respond(r, "error")
    BY <1>2, <2>2, FirstAnswerIsSeen DEF Dismiss
  <2> QED BY <1>2, <2>1, <2>2 DEF Dismiss
<1>3. ASSUME NEW r \in Request, OpenProgress(r) PROVE Goal
  BY <1>3 DEF OpenProgress, ShowProgress, OpenTask, Respond, Shows
<1>4. ASSUME NEW r \in Request, ReturnEarly(r) \/ StopCancelled(r) PROVE Goal
  BY <1>4 DEF ReturnEarly, StopCancelled, Leave, Detach, MayFail
<1>5. ASSUME NEW r \in Request, NEW k \in Commands, ExplicitCommand(r, k) PROVE Goal
  BY <1>5 DEF ExplicitCommand
<1>6. ASSUME NEW r \in Request, NEW stage \in AfterJoin \ {"done"}, Join(r, stage), pc[r] # "done",
             UNCHANGED <<seen, loose>>, \A p \in Request \ {r} : kind'[p] = kind[p]
      PROVE  Goal
  BY <1>6 DEF Join, Close, AfterJoin
<1>7. ASSUME NEW r \in Request,
             \/ PlanRefusal(r) \/ PlanVision(r) \/ GroundingFails(r)
             \/ \E k \in {"transcribe", "media", "artifact"} : PlanCommand(r, k)
             \/ Answered(r) \/ ChatFails(r) \/ Generated(r) \/ GenerationFails(r)
      PROVE  Goal
  BY <1>6, <1>7 DEF PlanRefusal, PlanVision, GroundingFails, PlanCommand, Answered, ChatFails,
                    Generated, GenerationFails, AfterJoin
<1>8. ASSUME NEW r \in Request, Joined(r) PROVE Goal
  BY <1>8 DEF Joined, AfterJoin
<1>9. ASSUME NEW r \in Request,
             \/ PlanExpansion(r) \/ PlanAssistant(r)
             \/ StoreQuestion(r) \/ StoreAnswer(r) \/ DeliveryFails(r)
      PROVE  Goal
  BY <1>9 DEF PlanExpansion, PlanAssistant, StoreQuestion, StoreAnswer, DeliveryFails
<1>10. ASSUME NEW r \in Request, ShowText(r) \/ Deliver(r) \/ Transcribed(r) PROVE Goal
  BY <1>10 DEF ShowText, Deliver, Transcribed, Shows
<1>11. ASSUME NEW r \in Request, CommandRefused(r) \/ ReplyFails(r) \/ BeginTranscription(r)
       PROVE  Goal
  BY <1>11 DEF CommandRefused, ReplyFails, BeginTranscription
<1>12. ASSUME NEW r \in Request, Reply(r) PROVE Goal
  BY <1>12, FirstAnswerIsSeen DEF Reply
<1>13. ASSUME NEW r \in Request, BeginGeneration(r) PROVE Goal
  BY <1>13 DEF BeginGeneration, ShowProgress, OpenTask, Respond, Shows
<1>14. ASSUME NEW r \in Request, PreparationFails(r) PROVE Goal
  BY <1>14 DEF PreparationFails, Detach
<1>15. ASSUME NEW r \in Request, ShowError(r) PROVE Goal
  <2>1. CASE Guest(r) /\ EditsError(r) /\ answers[r] > 0
    BY <1>15, <2>1 DEF ShowError, Shows
  <2>2. CASE ~(Guest(r) /\ EditsError(r) /\ answers[r] > 0)
    <3>1. Respond(r, "error")
      BY <1>15, <2>2 DEF ShowError
    <3> QED BY <1>15, <3>1, FirstAnswerIsSeen DEF ShowError
  <2> QED BY <2>1, <2>2
<1>16. ASSUME NEW r \in Request, ErrorNotShown(r) PROVE Goal
  BY <1>16 DEF ErrorNotShown, MayFail
<1>17. ASSUME NEW r \in Request, TaskStep(r) PROVE Goal
  BY <1>17 DEF TaskStep, ProgressEdit, TaskEnds, GuestTaskGivesUp, LooseEdit, DeletionNoticed,
               Edited
<1>18. ASSUME NEW r \in Request, Delete(r) PROVE Goal
  BY <1>18 DEF Delete
<1> QED
  BY <1>1, <1>2, <1>3, <1>4, <1>5, <1>7, <1>8, <1>9, <1>10, <1>11, <1>12, <1>13, <1>14,
     <1>15, <1>16, <1>17, <1>18 DEF Next, RequestStep

\* No request is at a stage at which its progress task could overtake its result.
LEMMA Handover == Spec => []HandoverInv
<1>1. Init => HandoverInv
  BY DEF Init, HandoverInv, HandedOver, Settled
<1>2. TypeOK /\ HandoverInv /\ [Next]_vars => HandoverInv'
  BY HandoverStep DEF HandoverInv
<1> QED BY <1>1, <1>2, TypeInvariant, PTL DEF Spec

\* Whoever's request was taken up and is not cancelled sees its result or an error
\* when it ends, whatever the planner, the provider and other requests do, but for a
\* provider's failure to describe media or to expand a prompt, which nobody is told.
THEOREM CallersAreTold == Spec => CallerIsTold
<1>1. TypeOK /\ HandoverInv /\ [Next]_vars => \A r \in Request : Told(r)
  BY HandoverStep
<1>2. TypeOK /\ HandoverInv /\ [Next]_vars =>
        [\A r \in Request :
           /\ pc[r] # "done" /\ pc'[r] = "done" /\ ~cancelled[r]
           /\ task[r] # "none" \/ kind[r] # "none"
           /\ failing \subseteq {"provider"} /\ pc[r] \notin {"describing", "expanding"} /\ answers'[r] <= 1
           => seen'[r] \in {"result", "error"}]_vars
  BY <1>1 DEF Told
<1> QED BY <1>2, TypeInvariant, Handover, PTL DEF Spec, CallerIsTold

\* An edit of a progress task never replaces the result or the error that was shown
\* at last, unless an error left the task behind.
THEOREM ResultsAreFinal == Spec => ResultIsFinal
<1>1. TypeOK /\ HandoverInv /\ [Next]_vars => \A r \in Request : Final(r)
  BY HandoverStep
<1>2. TypeOK /\ HandoverInv /\ [Next]_vars =>
        [\A r \in Request :
           seen[r] \in {"result", "error"} /\ ~loose[r] => seen'[r] = seen[r]]_vars
  BY <1>1 DEF Final
<1> QED BY <1>2, TypeInvariant, Handover, PTL DEF Spec, ResultIsFinal
=============================================================================
