---------------------------- MODULE AnswerProofs ----------------------------
(***************************************************************************)
(* An answer, from the rounds that make it to the messages that bring it.  *)
(* ToolLoop, for any tools, rounds and calls: what a request may make, and *)
(* with which prompts. HostedMedia, for any files, limits and life of a    *)
(* link: links go for need, the oldest first, and parts are exact.         *)
(* RichText, for any text and limits: code is kept, pieces hold the whole  *)
(* text and can be read alone, and an answer is never cut off.             *)
(***************************************************************************)
EXTENDS ToolLoop, HostedMedia, RichText, SequenceTheorems, WellFoundedInduction, TLAPS

-----------------------------------------------------------------------------
(* Natural numbers                                                         *)

\* The order of the natural numbers, as a relation, is well-founded.
LEMMA LessIsWellFounded == IsWellFoundedOn({p \in Nat \X Nat : p[1] < p[2]}, Nat)
<1>1. OpToRel(<, Nat) = {p \in Nat \X Nat : p[1] < p[2]}
  BY DEF OpToRel
<1> QED BY <1>1, NatLessThanWellFounded, Zenon

\* A set of natural numbers has a smallest one.
LEMMA HasSmallest ==
  ASSUME NEW S \in SUBSET Nat, S # {}
  PROVE  \E m \in S : \A k \in S : m <= k
<1> DEFINE Less == {p \in Nat \X Nat : p[1] < p[2]}
<1> HIDE DEF Less
<1>1. \E m \in S : \A k \in S : <<k, m>> \notin Less
  <2>1. IsWellFoundedOn(Less, Nat)
    BY LessIsWellFounded DEF Less
  <2>2. S \subseteq Nat
    OBVIOUS
  <2> QED BY <2>1, <2>2, WFMin, Zenon
<1>2. PICK m \in S : \A k \in S : <<k, m>> \notin Less
  BY <1>1
<1>3. ASSUME NEW k \in S PROVE m <= k
  <2>1. <<k, m>> \in Nat \X Nat
    OBVIOUS
  <2>2. ~(k < m)
    BY <1>2, <2>1 DEF Less
  <2> QED BY <2>2
<1> QED BY <1>3

\* Induction up to a number, of which the least counterexample is the proof.
LEMMA UpToN ==
  ASSUME NEW n \in Nat, NEW S, 0 \in S, \A k \in 0 .. n - 1 : k \in S => k + 1 \in S
  PROVE  0 .. n \subseteq S
<1> DEFINE Left == 0 .. n \ S
<1> SUFFICES ASSUME Left # {} PROVE FALSE
  OBVIOUS
<1>1. \E m \in Left : \A k \in Left : m <= k
  <2>1. Left \in SUBSET Nat
    OBVIOUS
  <2> HIDE DEF Left
  <2> QED BY <2>1, HasSmallest
<1>2. PICK m \in Left : \A k \in Left : m <= k
  BY <1>1
<1>3. m - 1 \in 0 .. n - 1 /\ m - 1 \notin Left
  BY <1>2
<1> QED BY <1>2, <1>3

-----------------------------------------------------------------------------
(* ToolLoop: the loop                                                      *)

\* A message is a sequence of calls, and not an empty one.
LEMMA MessageType ==
  ASSUME NEW m \in Message
  PROVE  m \in Seq(Call) /\ Len(m) \in Nat
<1>1. PICK n \in 1..MaxCalls : m \in [1..n -> Call]
  BY DEF Message
<1>2. n \in Nat
  BY ToolAssumption
<1> QED BY <1>1, <1>2

\* The books of the loop: a call is owed its result until it is handled, and the
\* model is asked only while rounds are left.
Steady ==
  /\ calls \in Seq(Call)
  /\ round \in 0..Rounds
  /\ owed = Len(calls)
  /\ phase # "calling" => calls = <<>>
  /\ phase \in {"asking", "waiting"} => round < Rounds

\* Every step keeps these books.
THEOREM BooksAreKept == Spec => []Steady
<1>1. Init => Steady
  BY ToolAssumption DEF Init, Steady
<1>2. Steady /\ [Next]_vars => Steady'
  <2> SUFFICES ASSUME Steady, [Next]_vars PROVE Steady'
    OBVIOUS
  <2> USE DEF Steady
  <2>1. CASE UNCHANGED vars
    BY <2>1 DEF vars
  <2>2. CASE Ask \/ AskFails \/ Answer
    BY <2>2 DEF Ask, AskFails, Answer
  <2>3. CASE CallTools
    <3>1. PICK m \in Message : calls' = m /\ owed' = owed + Len(m)
      BY <2>3 DEF CallTools
    <3>2. owed = 0
      BY <2>3 DEF CallTools
    <3>3. calls' \in Seq(Call) /\ owed' = Len(calls')
      BY <3>1, <3>2, MessageType
    <3> QED BY <2>3, <3>3, ToolAssumption DEF CallTools
  <2>4. CASE Skip \/ Generate \/ SendFile \/ Inform
    <3>1. calls # <<>> /\ Result /\ phase = "calling" /\ phase' = phase /\ round' = round
      BY <2>4 DEF Skip, Generate, SendFile, Inform, Runnable
    <3>2. calls' \in Seq(Call) /\ owed' = Len(calls')
      BY <3>1 DEF Result
    <3> QED BY <3>1, <3>2
  <2>5. CASE AfterRound
    BY <2>5, ToolAssumption DEF AfterRound
  <2> QED BY <2>1, <2>2, <2>3, <2>4, <2>5 DEF Next
<1> QED BY <1>1, <1>2, PTL DEF Spec

\* The model is asked only when all its calls have their results.
THEOREM CallsAreAnswered == Spec => []CallsHaveResults
<1>1. Steady => CallsHaveResults
  BY DEF Steady, CallsHaveResults
<1> QED BY <1>1, BooksAreKept, PTL

\* Every variable keeps to its type.
THEOREM TypeInvariant == Spec => []TypeOK
<1>1. Init => TypeOK
  BY ToolAssumption DEF Init, TypeOK, Switches, Source
<1>2. TypeOK /\ owed = Len(calls) /\ (phase = "waiting" => round < Rounds) /\ [Next]_vars
      => TypeOK'
  <2> SUFFICES ASSUME TypeOK, owed = Len(calls), phase = "waiting" => round < Rounds, [Next]_vars
               PROVE  TypeOK'
    OBVIOUS
  <2> USE DEF TypeOK, requestVars, artifactVars
  <2>1. CASE UNCHANGED vars
    BY <2>1 DEF vars
  <2>2. CASE Ask
    BY <2>2 DEF Ask, Offered
  <2>3. CASE AskFails
    BY <2>3 DEF AskFails
  <2>4. CASE Answer
    BY <2>4 DEF Answer, WithCodeFile
  <2>5. CASE CallTools
    <3>1. round' \in 0..Rounds
      BY <2>5, ToolAssumption DEF CallTools
    <3>2. calls' \in Seq(Call) /\ owed' \in Nat
      BY <2>5, MessageType DEF CallTools
    <3> QED BY <2>5, <3>1, <3>2 DEF CallTools
  <2>6. ASSUME phase = "calling", calls # <<>>, Result
        PROVE  calls' \in Seq(Call) /\ owed' \in Nat /\ call \in Call
    BY <2>6 DEF Result, call
  <2>7. CASE Skip
    BY <2>7, <2>6 DEF Skip
  <2>8. CASE Generate
    <3>1. calls' \in Seq(Call) /\ owed' \in Nat /\ call.tool \in Tool /\ call.argument \in Argument
      BY <2>8, <2>6 DEF Generate, Runnable, Call
    <3>2. prompt' \in Source
      BY <2>8, <3>1 DEF Generate, PromptFor, Source, Argument
    <3>3. Given(prompt') \in Source
      BY <3>1, <3>2 DEF Given, Source, Argument
    <3>4. /\ completed' \subseteq Generators \cap Tool
          /\ made' \in [Tool -> Nat]
          /\ sources' \subseteq Generators \X Source
          /\ ran' \subseteq Tool
      BY <2>8, <3>1, <3>3 DEF Generate
    <3> QED BY <2>8, <3>1, <3>2, <3>4 DEF Generate
  <2>9. CASE SendFile
    <3>1. calls' \in Seq(Call) /\ owed' \in Nat /\ call.tool \in Tool
      BY <2>9, <2>6 DEF SendFile, Runnable, Call
    <3> QED BY <2>9, <3>1 DEF SendFile
  <2>10. CASE Inform
    <3>1. calls' \in Seq(Call) /\ owed' \in Nat /\ call.tool \in Tool
      BY <2>10, <2>6 DEF Inform, Runnable, Call
    <3> QED BY <2>10, <3>1 DEF Inform
  <2>11. CASE AfterRound
    BY <2>11 DEF AfterRound
  <2> QED
    BY <2>1, <2>2, <2>3, <2>4, <2>5, <2>7, <2>8, <2>9, <2>10, <2>11 DEF Next
<1>3. Steady => owed = Len(calls) /\ (phase = "waiting" => round < Rounds)
  BY DEF Steady
<1> QED BY <1>1, <1>2, <1>3, BooksAreKept, PTL DEF Spec

-----------------------------------------------------------------------------
(* ToolLoop: what a request makes                                          *)

\* What was made is completed, once and of an enabled tool; nothing completed is
\* on offer; a single-stage request has one prompt, and ends with what it made.
RequestInv ==
  /\ \A t \in Generators \cap Tool : made[t] <= 1 /\ (made[t] > 0 => t \in completed)
  /\ DisabledDoNothing
  /\ OffersAreUseful
  /\ SingleStageDelivers
  /\ ~composed => /\ prompt # "written"
                  /\ \A s \in sources : s[2] = prompt /\ prompt # "none"

\* Only these steps make something, and they make one.
LEMMA MadeStep ==
  ASSUME TypeOK, NEW t \in Tool, made' = [made EXCEPT ![t] = @ + 1], NEW u \in Tool
  PROVE  /\ u # t => made'[u] = made[u]
         /\ made'[t] = made[t] + 1
         /\ made[u] \in Nat
  BY DEF TypeOK

\* RequestInv is inductive.
LEMMA RequestStep ==
  ASSUME TypeOK, Steady, RequestInv, [Next]_vars
  PROVE  RequestInv'
<1> USE DEF requestVars, artifactVars
<1>1. CASE UNCHANGED vars
  BY <1>1 DEF vars, RequestInv, DisabledDoNothing, OffersAreUseful, SingleStageDelivers
<1>2. CASE Ask
  <2>1. OffersAreUseful'
    <3> SUFFICES ASSUME NEW t \in Offered \cap Generators, NEW n \in Names(t) \cap Tool
                 PROVE  made[n] = 0
      BY <1>2 DEF Ask, OffersAreUseful
    <3>1. n \in Generators /\ n \notin completed
      BY DEF Offered, Names, Generators
    <3> QED BY <3>1 DEF RequestInv, TypeOK
  <2> QED
    BY <1>2, <2>1 DEF Ask, RequestInv, DisabledDoNothing, SingleStageDelivers
<1>3. CASE AskFails \/ CallTools
  BY <1>3 DEF AskFails, CallTools, RequestInv, DisabledDoNothing, OffersAreUseful,
              SingleStageDelivers
<1>4. CASE Answer
  <2>1. \A t \in Tool : t # "send_file" => made'[t] = made[t]
    BY <1>4 DEF Answer, WithCodeFile, TypeOK
  <2>2. "send_file" \in Tool /\ made'["send_file"] # made["send_file"] => "send_file" \in enabled
    BY <1>4 DEF Answer, WithCodeFile, TypeOK
  <2>3. "send_file" \notin Generators
    BY DEF Generators
  <2>4. DisabledDoNothing'
    BY <1>4, <2>1, <2>2 DEF Answer, RequestInv, DisabledDoNothing
  <2> QED
    BY <1>4, <2>1, <2>3, <2>4 DEF Answer, RequestInv, OffersAreUseful, SingleStageDelivers
<1>5. CASE Skip \/ Inform
  BY <1>5 DEF Skip, Inform, Informs, Runnable, RequestInv, DisabledDoNothing, OffersAreUseful,
              SingleStageDelivers
<1>6. CASE Generate
  <2>1. /\ call \in Call /\ call.tool \in Generators \cap Tool /\ call.tool \notin completed
        /\ phase = "calling" /\ phase' = "calling"
    <3>1. calls # <<>> /\ calls \in Seq(Call)
      BY <1>6 DEF Generate, Runnable, Steady
    <3>2. call \in Call
      BY <3>1 DEF call
    <3>3. call.tool \in Tool
      BY <3>2 DEF Call
    <3> QED BY <1>6, <3>2, <3>3 DEF Generate, Runnable
  <2>2. made[call.tool] = 0
    BY <2>1 DEF RequestInv, TypeOK
  <2>3. \/ UNCHANGED artifactVars
        \/ /\ call.tool \in enabled
           /\ sources' = sources \cup {<<call.tool, Given(prompt')>>}
           /\ made' = [made EXCEPT ![call.tool] = @ + 1]
           /\ completed' = completed \cup {call.tool}
    BY <1>6 DEF Generate
  <2>4. \A t \in Generators \cap Tool : made'[t] <= 1 /\ (made'[t] > 0 => t \in completed')
    BY <2>1, <2>2, <2>3, MadeStep DEF RequestInv
  <2>5. DisabledDoNothing'
    BY <1>6, <2>1, <2>3, MadeStep DEF Generate, RequestInv, DisabledDoNothing
  <2>6. ~composed' => /\ prompt' # "written"
                      /\ \A s \in sources' : s[2] = prompt' /\ prompt' # "none"
    <3> SUFFICES ASSUME ~composed
                 PROVE  /\ prompt' # "written"
                        /\ \A s \in sources' : s[2] = prompt' /\ prompt' # "none"
      BY <1>6 DEF Generate
    <3>1. /\ prompt' # "written" /\ prompt' # "none"
          /\ prompt # "none" => prompt' = prompt
      BY <1>6 DEF Generate, PromptFor, RequestInv
    <3>2. Given(prompt') = prompt'
      BY DEF Given
    <3>3. \A s \in sources : s[2] = prompt'
      BY <3>1 DEF RequestInv
    <3> QED BY <2>3, <3>1, <3>2, <3>3
  <2> QED
    BY <2>1, <2>4, <2>5, <2>6 DEF RequestInv, OffersAreUseful, SingleStageDelivers
<1>7. CASE SendFile
  <2>1. \A t \in Tool : t # "send_file" => made'[t] = made[t]
    BY <1>7 DEF SendFile, TypeOK
  <2>2. "send_file" \notin Generators
    BY DEF Generators
  <2>3. DisabledDoNothing'
    BY <1>7, <2>1 DEF SendFile, RequestInv, DisabledDoNothing
  <2>4. phase' = "calling"
    BY <1>7 DEF SendFile, Runnable
  <2> QED
    BY <1>7, <2>1, <2>2, <2>3, <2>4 DEF SendFile, RequestInv, OffersAreUseful, SingleStageDelivers
<1>8. CASE AfterRound
  BY <1>8 DEF AfterRound, RequestInv, DisabledDoNothing, OffersAreUseful, SingleStageDelivers
<1> QED BY <1>1, <1>2, <1>3, <1>4, <1>5, <1>6, <1>7, <1>8 DEF Next

\* RequestInv holds of every request.
LEMMA RequestsKeepInv == Spec => []RequestInv
<1>1. Init => RequestInv
  BY DEF Init, RequestInv, DisabledDoNothing, OffersAreUseful, SingleStageDelivers
<1> QED BY <1>1, RequestStep, TypeInvariant, BooksAreKept, PTL DEF Spec

\* A generator makes something once, for any model, number of rounds and calls.
THEOREM MadeOnce == Spec => []GeneratorsMakeOnce
<1>1. RequestInv => GeneratorsMakeOnce
  BY DEF RequestInv, GeneratorsMakeOnce
<1> QED BY <1>1, RequestsKeepInv, PTL

\* What is made for a single-stage request ends it with an answer.
THEOREM SingleStagesDeliver == Spec => []SingleStageDelivers
<1>1. RequestInv => SingleStageDelivers
  BY DEF RequestInv
<1> QED BY <1>1, RequestsKeepInv, PTL

\* Generators of a single-stage request are given one prompt, the caller's.
THEOREM PromptsStayTheCallers == Spec => []PromptsAreTheCallers
<1>1. RequestInv => PromptsAreTheCallers
  BY DEF RequestInv, PromptsAreTheCallers
<1> QED BY <1>1, RequestsKeepInv, PTL

\* Nothing is made or run, but a search, by a tool that is switched off, and nothing is offered twice.
THEOREM OffersAndSwitches == Spec => [](DisabledDoNothing /\ OffersAreUseful)
<1>1. RequestInv => DisabledDoNothing /\ OffersAreUseful
  BY DEF RequestInv
<1> QED BY <1>1, RequestsKeepInv, PTL

-----------------------------------------------------------------------------
(* HostedMedia: bytes                                                      *)

\* Files, as they are published.
File == [size : 1 .. MaxItem, expires : Nat]

\* sum[n] is what those of the links take that are among the first n files.
Sums(sum, files, links, last) ==
  sum = [n \in 0 .. last |->
           IF n = 0 THEN 0 ELSE sum[n - 1] + (IF n \in links THEN files[n].size ELSE 0)]
Sum(files, links) == CHOOSE sum : Sums(sum, files, links, Len(files))

\* The model's bytes are the last of these sums.
LEMMA BytesAreSum == ASSUME NEW links PROVE Bytes(links) = Sum(items, links)[Len(items)]
BY DEF Bytes, Sum, Sums

\* There is such a function, for any files: each number of files extends the one before.
LEMMA SumExists ==
  ASSUME NEW files \in Seq(File), NEW links
  PROVE  Sums(Sum(files, links), files, links, Len(files))
<1> DEFINE K == {n \in Nat : \E sum : Sums(sum, files, links, n)}
<1>1. 0 \in K
  <2>1. Sums([i \in 0 .. 0 |-> 0], files, links, 0)
    BY DEF Sums
  <2> QED BY <2>1
<1>2. ASSUME NEW n \in Nat, n \in K PROVE n + 1 \in K
  <2>1. PICK f : Sums(f, files, links, n)
    BY <1>2
  <2> DEFINE m == n + 1
             g == [i \in 0 .. m |->
                     IF i = m THEN f[n] + (IF m \in links THEN files[m].size ELSE 0) ELSE f[i]]
  <2>2. ASSUME NEW i \in 0 .. m
        PROVE  g[i] = IF i = 0 THEN 0 ELSE g[i - 1] + (IF i \in links THEN files[i].size ELSE 0)
    <3>1. CASE i = m
      BY <3>1
    <3>2. CASE i # m
      <4>1. i \in 0 .. n /\ (i # 0 => i - 1 \in 0 .. n /\ i - 1 # m)
        BY <3>2
      <4>2. g[i] = f[i] /\ (i # 0 => g[i - 1] = f[i - 1])
        BY <4>1, <3>2
      <4> HIDE DEF g
      <4> QED BY <2>1, <4>1, <4>2 DEF Sums
    <3> QED BY <3>1, <3>2
  <2>3. Sums(g, files, links, m)
    BY <2>2 DEF Sums
  <2> QED BY <2>3
<1> HIDE DEF K
<1>3. Len(files) \in K
  BY <1>1, <1>2, UpToN
<1>4. \E sum : Sums(sum, files, links, Len(files))
  BY <1>3 DEF K
<1> QED BY <1>4 DEF Sum

\* So every file adds its size, or nothing.
LEMMA SumUnfolds ==
  ASSUME NEW files \in Seq(File), NEW links
  PROVE  /\ Sum(files, links)[0] = 0
         /\ \A n \in 1 .. Len(files) :
              Sum(files, links)[n] =
                Sum(files, links)[n - 1] + (IF n \in links THEN files[n].size ELSE 0)
BY SumExists DEF Sums

\* A sum of sizes is a number.
LEMMA SumIsNat ==
  ASSUME NEW files \in Seq(File), NEW links
  PROVE  \A n \in 0 .. Len(files) : Sum(files, links)[n] \in Nat
<1> DEFINE K == {n \in 0 .. Len(files) : Sum(files, links)[n] \in Nat}
<1>1. 0 \in K
  BY SumUnfolds
<1>2. ASSUME NEW n \in 0 .. Len(files) - 1, n \in K PROVE n + 1 \in K
  <2>1. n + 1 \in 1 .. Len(files) /\ n + 1 - 1 = n
    OBVIOUS
  <2>2. files[n + 1] \in File
    BY <2>1
  <2>3. files[n + 1].size \in Nat
    BY <2>2, MediaAssumption DEF File
  <2>4. Sum(files, links)[n + 1] = Sum(files, links)[n] +
          (IF n + 1 \in links THEN files[n + 1].size ELSE 0)
    BY <2>1, SumUnfolds
  <2> QED BY <1>2, <2>1, <2>3, <2>4
<1> HIDE DEF K
<1>3. 0 .. Len(files) \subseteq K
  BY <1>1, <1>2, UpToN
<1> QED BY <1>3 DEF K

\* Of the links only those up to the file count, and more of them take more.
LEMMA SumIsMonotone ==
  ASSUME NEW files \in Seq(File), NEW few, NEW many, few \cap DOMAIN files \subseteq many
  PROVE  \A n \in 0 .. Len(files) : Sum(files, few)[n] <= Sum(files, many)[n]
<1> DEFINE K == {n \in 0 .. Len(files) : Sum(files, few)[n] <= Sum(files, many)[n]}
<1>1. 0 \in K
  BY SumUnfolds
<1>2. ASSUME NEW n \in 0 .. Len(files) - 1, n \in K PROVE n + 1 \in K
  <2>1. n + 1 \in 1 .. Len(files) /\ n + 1 - 1 = n
    OBVIOUS
  <2>2. files[n + 1].size \in Nat
    <3>1. files[n + 1] \in File
      BY <2>1
    <3> QED BY <3>1, MediaAssumption DEF File
  <2>3. /\ Sum(files, few)[n + 1] = Sum(files, few)[n] +
             (IF n + 1 \in few THEN files[n + 1].size ELSE 0)
        /\ Sum(files, many)[n + 1] = Sum(files, many)[n] +
             (IF n + 1 \in many THEN files[n + 1].size ELSE 0)
    BY <2>1, SumUnfolds
  <2>4. n + 1 \in few => n + 1 \in many
    BY <2>1
  <2>5. Sum(files, few)[n] \in Nat /\ Sum(files, many)[n] \in Nat
    BY SumIsNat
  <2> QED BY <1>2, <2>1, <2>2, <2>3, <2>4, <2>5
<1> HIDE DEF K
<1>3. 0 .. Len(files) \subseteq K
  BY <1>1, <1>2, UpToN
<1> QED BY <1>3 DEF K

\* A file that is published later changes nothing for those before it.
LEMMA SumOfAppended ==
  ASSUME NEW files \in Seq(File), NEW file \in File, NEW links
  PROVE  LET more == Append(files, file)
         IN  /\ more \in Seq(File) /\ Len(more) = Len(files) + 1
             /\ Sum(more, links)[Len(more)] =
                  Sum(files, links)[Len(files)] + (IF Len(more) \in links THEN file.size ELSE 0)
<1> DEFINE more == Append(files, file)
           K == {n \in 0 .. Len(files) : Sum(more, links)[n] = Sum(files, links)[n]}
<1>0. /\ more \in Seq(File) /\ Len(more) = Len(files) + 1 /\ more[Len(files) + 1] = file
      /\ \A n \in 1 .. Len(files) : more[n] = files[n]
  OBVIOUS
<1> HIDE DEF more
<1>1. 0 \in K
  BY <1>0, SumUnfolds
<1>2. ASSUME NEW n \in 0 .. Len(files) - 1, n \in K PROVE n + 1 \in K
  <2>1. n + 1 \in 1 .. Len(files) /\ n + 1 \in 1 .. Len(more) /\ n + 1 - 1 = n
    BY <1>0
  <2>2. /\ Sum(files, links)[n + 1] = Sum(files, links)[n] +
             (IF n + 1 \in links THEN files[n + 1].size ELSE 0)
        /\ Sum(more, links)[n + 1] = Sum(more, links)[n] +
             (IF n + 1 \in links THEN more[n + 1].size ELSE 0)
    BY <1>0, <2>1, SumUnfolds
  <2> QED BY <1>0, <1>2, <2>1, <2>2
<1> HIDE DEF K
<1>3. 0 .. Len(files) \subseteq K
  BY <1>1, <1>2, UpToN
<1>4. Sum(more, links)[Len(files)] = Sum(files, links)[Len(files)]
  BY <1>3 DEF K
<1>5. Len(files) + 1 \in 1 .. Len(more) /\ Len(files) + 1 - 1 = Len(files)
  BY <1>0
<1>6. Sum(more, links)[Len(more)] =
        Sum(more, links)[Len(files)] +
          (IF Len(more) \in links THEN more[Len(files) + 1].size ELSE 0)
  BY <1>0, <1>5, SumUnfolds
<1> QED BY <1>0, <1>4, <1>6 DEF more

\* Of the files in memory: what takes no files takes nothing, and more take more.
LEMMA BytesGrow ==
  ASSUME items \in Seq(File), NEW few, NEW many, few \cap DOMAIN items \subseteq many
  PROVE  Bytes(few) \in Nat /\ Bytes(many) \in Nat /\ Bytes(few) <= Bytes(many)
<1>1. Len(items) \in 0 .. Len(items)
  OBVIOUS
<1>2. Sum(items, few)[Len(items)] \in Nat /\ Sum(items, many)[Len(items)] \in Nat
  BY <1>1, SumIsNat
<1>3. Sum(items, few)[Len(items)] <= Sum(items, many)[Len(items)]
  BY <1>1, SumIsMonotone
<1> QED BY <1>2, <1>3, BytesAreSum

\* No links take nothing.
LEMMA NothingTakesNothing == ASSUME items \in Seq(File) PROVE Bytes({}) = 0
<1> DEFINE K == {n \in 0 .. Len(items) : Sum(items, {})[n] = 0}
<1>1. 0 \in K
  BY SumUnfolds
<1>2. ASSUME NEW n \in 0 .. Len(items) - 1, n \in K PROVE n + 1 \in K
  <2>1. n + 1 \in 1 .. Len(items) /\ n + 1 - 1 = n
    OBVIOUS
  <2>2. Sum(items, {})[n + 1] = Sum(items, {})[n] + 0
    BY <2>1, SumUnfolds
  <2> QED BY <1>2, <2>1, <2>2
<1>3. Len(items) \in Nat
  OBVIOUS
<1> HIDE DEF K
<1>4. 0 .. Len(items) \subseteq K
  BY <1>1, <1>2, <1>3, UpToN
<1>5. Sum(items, {})[Len(items)] = 0
  BY <1>3, <1>4 DEF K
<1> QED BY <1>5, BytesAreSum

-----------------------------------------------------------------------------
(* HostedMedia: the invariant                                              *)

\* No file lasts longer than the life of a link from now on.
NoneOutlivesNew == \A l \in DOMAIN items : items[l].expires <= now + Life

\* A response that gave bytes names a file.
ServedIsPublished == served.status \in {200, 206} => served.link \in DOMAIN items

\* The inductive invariant of HostedMedia.
MediaInv ==
  MediaTypeOK /\ NoneOutlivesNew /\ ServedIsPublished /\ GoneForNeed /\ PartsAreExact

\* What a link that made room would have left no room for.
LEMMA RoomIsNeeded ==
  ASSUME items \in Seq(File), NEW links \in SUBSET DOMAIN items, NEW size \in 1 .. MaxItem,
         NEW left \in LeftAfterRoom(links, size)
  PROVE  /\ left \subseteq links
         /\ ~TooMuch(left, size)
         /\ \A l \in links \ left :
              TooMuch({k \in DOMAIN items : items[k].expires >= items[l].expires}, size)
<1>0. \E n \in 0 .. Cardinality(links) : \E gone \in [1 .. n -> links] :
        left = Remaining(links, gone, Len(gone)) /\ MakesRoom(gone, links, size)
  BY DEF LeftAfterRoom
<1> PICK n \in 0 .. Cardinality(links) : \E gone \in [1 .. n -> links] :
        left = Remaining(links, gone, Len(gone)) /\ MakesRoom(gone, links, size)
  BY <1>0
<1>1. PICK gone \in [1 .. n -> links] :
        left = Remaining(links, gone, Len(gone)) /\ MakesRoom(gone, links, size)
  OBVIOUS
<1>2. n \in Nat /\ gone \in Seq(links) /\ Len(gone) = n /\ DOMAIN gone = 1 .. n
  BY <1>1
<1>3. left \subseteq links
  BY <1>1 DEF Remaining
<1>4. ~TooMuch(left, size)
  <2>1. CASE left = {}
    <3>1. Bytes(left) = 0
      BY <2>1, NothingTakesNothing
    <3> QED BY <3>1, MediaAssumption DEF TooMuch
  <2>2. CASE left # {}
    BY <1>1, <2>2 DEF MakesRoom
  <2> QED BY <2>1, <2>2
<1>5. ASSUME NEW l \in links \ left
      PROVE  TooMuch({k \in DOMAIN items : items[k].expires >= items[l].expires}, size)
  <2> DEFINE later == {k \in DOMAIN items : items[k].expires >= items[l].expires}
             last == Remaining(links, gone, n - 1)
  <2>1. PICK i \in 1 .. n : gone[i] = l
    BY <1>1, <1>2 DEF Remaining
  <2>2. n \in DOMAIN gone /\ i \in DOMAIN gone
    BY <1>2
  <2>3. TooMuch(last, size)
    BY <1>1, <2>2 DEF MakesRoom
  <2>4. l \in Oldest(Remaining(links, gone, i - 1))
    BY <1>1, <2>1, <2>2 DEF MakesRoom
  <2>5. last \subseteq Remaining(links, gone, i - 1)
    BY <1>2 DEF Remaining
  <2>6. last \subseteq links
    BY DEF Remaining
  <2>7. \A k \in DOMAIN items : items[k] \in File
    OBVIOUS
  <2>8. last \subseteq later
    BY <2>4, <2>5, <2>6, <2>7 DEF Oldest, File
  <2> HIDE DEF last, later
  <2>9. Bytes(last) \in Nat /\ Bytes(later) \in Nat /\ Bytes(last) <= Bytes(later)
    BY <2>8, BytesGrow
  <2>10. TooMuch(later, size)
    BY <2>3, <2>9, MediaAssumption DEF TooMuch
  <2> QED BY <2>10 DEF later
<1> QED BY <1>3, <1>4, <1>5

-----------------------------------------------------------------------------
(* HostedMedia: the steps                                                  *)

\* At first nothing is published.
LEMMA MediaInvInit == MediaInit => MediaInv
<1> SUFFICES ASSUME MediaInit PROVE MediaInv
  OBVIOUS
<1>1. Len(items) = 0 /\ DOMAIN items = {} /\ items \in Seq(File)
  BY DEF MediaInit
<1>2. MediaTypeOK
  BY <1>1, MediaAssumption DEF MediaInit, MediaTypeOK, Nobody, NoRange, Ranges
<1>3. GoneForNeed
  BY <1>1, NothingTakesNothing, MediaAssumption DEF MediaInit, GoneForNeed
<1> QED BY <1>1, <1>2, <1>3
        DEF MediaInit, MediaInv, NoneOutlivesNew, ServedIsPublished, PartsAreExact, Nobody

\* Publishing: what is left fits with the new file, and the new file lasts as long as any,
\* so it counts with what a link that went was too much with.
LEMMA PublishKeeps ==
  ASSUME MediaInv, NEW size \in 0 .. MaxItem + 1, Publish(size)
  PROVE  MediaInv'
<1> DEFINE new == Len(items) + 1
           file == [size |-> size, expires |-> now + Life]
<1>1. items \in Seq(File) /\ now \in Nat /\ media \subseteq DOMAIN items
  BY DEF MediaInv, MediaTypeOK, File
<1>2. size \in 1 .. MaxItem /\ file \in File /\ items' = Append(items, file)
  BY <1>1, MediaAssumption DEF Publish, File
<1>3. PICK left \in LeftAfterRoom(Live(media), size) : media' = left \cup {new}
  BY DEF Publish
<1>4. Live(media) \in SUBSET DOMAIN items
  BY <1>1 DEF Live
<1>5. /\ left \subseteq Live(media) /\ ~TooMuch(left, size)
      /\ \A l \in Live(media) \ left :
           TooMuch({k \in DOMAIN items : items[k].expires >= items[l].expires}, size)
  <2>1. size \in 1 .. MaxItem /\ items \in Seq(File) /\ left \in LeftAfterRoom(Live(media), size)
    BY <1>1, <1>2, <1>3
  <2> HIDE DEF file, new
  <2> QED BY <2>1, <1>4, RoomIsNeeded
<1>6. /\ items' \in Seq(File) /\ Len(items') = new /\ DOMAIN items' = 1 .. new
      /\ DOMAIN items = 1 .. Len(items) /\ new \notin DOMAIN items
      /\ items'[new] = file /\ \A l \in DOMAIN items : items'[l] = items[l]
      /\ \A l \in DOMAIN items : items[l] \in File
  BY <1>1, <1>2
<1>7. now' = now /\ served' = served
  BY DEF Publish
<1>8. MediaTypeOK'
  <2>1. media' \subseteq DOMAIN items'
    BY <1>1, <1>3, <1>4, <1>5, <1>6
  <2>2. served' \in [link : 0 .. Len(items'), range : Ranges, at : Nat,
                     status : {0, 200, 206, 404}, from : Nat, to : Nat]
    BY <1>1, <1>6, <1>7 DEF MediaInv, MediaTypeOK
  <2> QED BY <2>1, <2>2, <1>6, <1>7 DEF MediaInv, MediaTypeOK, File
<1>9. NoneOutlivesNew'
  BY <1>1, <1>6, <1>7, MediaAssumption DEF MediaInv, NoneOutlivesNew
<1>10. ServedIsPublished' /\ PartsAreExact'
  BY <1>6, <1>7 DEF MediaInv, ServedIsPublished, PartsAreExact, Satisfiable, Asked
<1>11. Bytes(media)' <= MaxTotal
  <2>1. Bytes(media)' = Sum(items', media')[Len(items')]
    BY DEF Bytes, Sum, Sums
  <2>2. Sum(items', media')[Len(items')] = Sum(items, media')[Len(items)] + size
    BY <1>1, <1>2, <1>3, <1>6, SumOfAppended
  <2>3. Len(items) \in 0 .. Len(items) /\ media' \cap DOMAIN items \subseteq left
    BY <1>1, <1>3, <1>6
  <2>4. Sum(items, media')[Len(items)] <= Sum(items, left)[Len(items)]
    BY <1>1, <2>3, SumIsMonotone
  <2>5. /\ Sum(items, media')[Len(items)] \in Nat
        /\ Bytes(left) = Sum(items, left)[Len(items)] /\ Bytes(left) \in Nat
    BY <1>1, <2>3, SumIsNat, BytesAreSum
  <2> QED BY <1>2, <1>5, <2>1, <2>2, <2>4, <2>5, MediaAssumption DEF TooMuch
<1>12. ASSUME NEW l \in DOMAIN items' \ media', items'[l].expires > now
       PROVE  Bytes({k \in DOMAIN items : items[k].expires >= items[l].expires})' > MaxTotal
  <2> DEFINE later == {k \in DOMAIN items : items[k].expires >= items[l].expires}
  <2>1. l \in DOMAIN items /\ l \notin left /\ items'[l] = items[l]
    BY <1>3, <1>6, <1>12
  <2>2. later' \cap DOMAIN items = later /\ new \in later'
    BY <1>1, <1>6, <2>1, MediaAssumption DEF MediaInv, NoneOutlivesNew, File
  <2>3. Bytes(later)' = Sum(items', later')[Len(items')]
    BY DEF Bytes, Sum, Sums
  <2> HIDE DEF later
  <2>4. Sum(items', later')[Len(items')] = Sum(items, later')[Len(items)] + size
    BY <1>1, <1>2, <1>6, <2>2, SumOfAppended
  <2>5. Len(items) \in 0 .. Len(items)
    BY <1>1
  <2>6. Sum(items, later')[Len(items)] \in Nat /\ Sum(items, later)[Len(items)] \in Nat
    BY <1>1, <2>5, SumIsNat
  <2>7. Sum(items, later)[Len(items)] <= Sum(items, later')[Len(items)]
    BY <1>1, <2>2, <2>5, SumIsMonotone
  <2>8. Bytes(later) = Sum(items, later)[Len(items)]
    BY BytesAreSum
  <2>9. ASSUME l \in media PROVE Bytes(later)' > MaxTotal
    <3>1. l \in Live(media) \ left
      BY <1>12, <2>1, <2>9 DEF Live
    <3>2. TooMuch(later, size)
      BY <1>5, <3>1 DEF later
    <3> QED BY <1>2, <2>3, <2>4, <2>6, <2>7, <2>8, <3>2, MediaAssumption DEF TooMuch
  <2>10. ASSUME l \notin media PROVE Bytes(later)' > MaxTotal
    <3>1. Bytes(later) > MaxTotal
      BY <1>12, <2>1, <2>10 DEF MediaInv, GoneForNeed, later
    <3> QED BY <1>2, <2>3, <2>4, <2>6, <2>7, <2>8, <3>1, MediaAssumption
  <2>11. Bytes(later)' > MaxTotal
    BY <2>9, <2>10
  <2> QED BY <2>11 DEF later
<1>13. GoneForNeed'
  BY <1>7, <1>11, <1>12 DEF GoneForNeed
<1> QED BY <1>8, <1>9, <1>10, <1>13 DEF MediaInv

\* Serving: a range is understood exactly when it can be satisfied.
LEMMA ServeKeeps ==
  ASSUME MediaInv, NEW l \in DOMAIN items, NEW range \in Ranges, Serve(l, range)
  PROVE  MediaInv'
<1> DEFINE total == items[l].size
           stop == End(range, total)
<1>0. items \in Seq(File) /\ now \in Nat
  BY MediaAssumption DEF MediaInv, MediaTypeOK, File
<1>1. /\ now' = now /\ items' = items /\ media' = media
      /\ items[l] \in File /\ l \in 1 .. Len(items) /\ now \in Nat
  BY <1>0 DEF Serve
<1>2. total \in Nat /\ items[l].expires \in Nat
  BY <1>1, MediaAssumption DEF File
<1>3. /\ range.form \in {"none", "open", "closed"}
      /\ range.first \in 0 .. MaxUsize /\ range.last \in 0 .. MaxUsize
  BY DEF Ranges
<1>4. stop \in Nat /\ stop <= total
  BY <1>2, <1>3, MediaAssumption DEF End
<1>5. served' =
        IF ~Found(l)
        THEN [link |-> l, range |-> range, at |-> now, status |-> 404, from |-> 0, to |-> 0]
        ELSE IF Understood(range, total)
        THEN [link |-> l, range |-> range, at |-> now, status |-> 206,
              from |-> range.first, to |-> stop]
        ELSE [link |-> l, range |-> range, at |-> now, status |-> 200, from |-> 0, to |-> total]
  BY DEF Serve
<1>6. /\ served' \in [link : 0 .. Len(items), range : Ranges, at : Nat,
                      status : {0, 200, 206, 404}, from : Nat, to : Nat]
      /\ served'.link = l /\ served'.range = range /\ served'.at = now
  <2> HIDE DEF total, stop
  <2> QED BY <1>1, <1>2, <1>3, <1>4, <1>5, MediaAssumption
<1>7. MediaTypeOK'
  BY <1>1, <1>6 DEF MediaInv, MediaTypeOK
<1>8. Satisfiable(range, total) <=> Understood(range, total)
  BY <1>2, <1>3, MediaAssumption DEF Satisfiable, Understood, End
<1>9. CASE ~Found(l)
  <2>1. served'.status = 404
    BY <1>5, <1>9
  <2> QED BY <1>1, <1>7, <2>1
          DEF MediaInv, NoneOutlivesNew, ServedIsPublished, GoneForNeed, PartsAreExact, Bytes
<1>10. CASE Found(l)
  <2>1. served'.at < items'[served'.link].expires
    BY <1>1, <1>2, <1>6, <1>10 DEF Found
  <2>2. /\ served'.to <= total
        /\ {b \in 0 .. total - 1 : served'.from <= b /\ b < served'.to} = Asked(range, total)
    <3>1. CASE Understood(range, total)
      <4>1. served'.from = range.first /\ served'.to = stop
        BY <1>5, <1>10, <3>1
      <4>2. Satisfiable(range, total)
        BY <1>8, <3>1
      <4>3. ASSUME NEW b \in 0 .. total - 1
            PROVE  (range.first <= b /\ b < stop)
                     <=> (b >= range.first /\ (range.form = "open" \/ b <= range.last))
        BY <1>2, <1>3, <4>2, MediaAssumption DEF End, Satisfiable
      <4> QED BY <1>4, <4>1, <4>2, <4>3 DEF Asked
    <3>2. CASE ~Understood(range, total)
      <4>1. served'.from = 0 /\ served'.to = total
        BY <1>5, <1>10, <3>2
      <4>2. ~Satisfiable(range, total)
        BY <1>8, <3>2
      <4> QED BY <1>2, <4>1, <4>2 DEF Asked
    <3> QED BY <3>1, <3>2
  <2>3. PartsAreExact' /\ ServedIsPublished'
    BY <1>1, <1>6, <2>1, <2>2 DEF PartsAreExact, ServedIsPublished, Asked, Satisfiable
  <2> QED BY <1>1, <1>7, <2>3 DEF MediaInv, NoneOutlivesNew, GoneForNeed, Bytes
<1> QED BY <1>9, <1>10

\* Time only makes fewer links live.
LEMMA MediaTickKeeps == ASSUME MediaInv, MediaTick PROVE MediaInv'
<1>1. now' \in 0 .. MaxNow /\ now' = now + 1 /\ now \in Nat /\ UNCHANGED <<items, media, served>>
  BY MediaAssumption DEF MediaTick, MediaInv, MediaTypeOK
<1>2. \A l \in DOMAIN items : items[l].expires \in Nat
  <2>1. items \in Seq(File)
    BY DEF MediaInv, MediaTypeOK, File
  <2>2. \A l \in DOMAIN items : items[l] \in File
    BY <2>1
  <2> QED BY <2>2 DEF File
<1>3. MediaTypeOK' /\ ServedIsPublished' /\ PartsAreExact'
  BY <1>1 DEF MediaInv, MediaTypeOK, ServedIsPublished, PartsAreExact, Asked, Satisfiable
<1>4. NoneOutlivesNew'
  BY <1>1, <1>2, MediaAssumption DEF MediaInv, NoneOutlivesNew
<1>5. GoneForNeed'
  BY <1>1, <1>2 DEF MediaInv, GoneForNeed, Bytes
<1> QED BY <1>3, <1>4, <1>5 DEF MediaInv

\* Every step keeps the invariant.
LEMMA MediaInvStep == MediaInv /\ [MediaNext]_mediaVars => MediaInv'
<1> SUFFICES ASSUME MediaInv, [MediaNext]_mediaVars PROVE MediaInv'
  OBVIOUS
<1>1. CASE UNCHANGED mediaVars
  BY <1>1 DEF mediaVars, MediaInv, MediaTypeOK, NoneOutlivesNew, ServedIsPublished, GoneForNeed,
              PartsAreExact, Asked, Satisfiable, Bytes
<1>2. CASE \E size \in 0 .. MaxItem + 1 : PublishRefused(size)
  <2>1. UNCHANGED mediaVars
    BY <1>2 DEF PublishRefused
  <2> QED BY <1>1, <2>1
<1> QED BY <1>1, <1>2, PublishKeeps, ServeKeeps, MediaTickKeeps DEF MediaNext

\* It holds in every state.
LEMMA MediaInductive == MediaSpec => []MediaInv
BY MediaInvInit, MediaInvStep, PTL DEF MediaSpec

-----------------------------------------------------------------------------
(* HostedMedia: theorems                                                   *)

\* The clock, files, links and responses keep to their types, for any limits and
\* number of publications.
THEOREM MediaTypeInvariant == MediaSpec => []MediaTypeOK
<1>1. MediaInv => MediaTypeOK
  BY DEF MediaInv
<1> QED BY <1>1, MediaInductive, PTL

\* What publish_inner keeps is within the limit, and what it removes had to go: the
\* link and all that last as long or longer are more than there is room for.
THEOREM LinksGoForNeed == MediaSpec => []GoneForNeed
<1>1. MediaInv => GoneForNeed
  BY DEF MediaInv
<1> QED BY <1>1, MediaInductive, PTL

\* What serve gives of a file is what the range asks for, for any files, ranges and
\* width of a number, and it is given while the link lasts.
THEOREM ResponsesAreExact == MediaSpec => []PartsAreExact
<1>1. MediaInv => PartsAreExact
  BY DEF MediaInv
<1> QED BY <1>1, MediaInductive, PTL

-----------------------------------------------------------------------------
(* RichText: what is read line by line                                     *)

\* Lines as they are converted.
OutLine == [fence : BOOLEAN, len : Nat, source : Nat, asis : BOOLEAN]

\* open[i] is the number of fences that are open in front of the i-th line.
Toggled(open, lines, last) ==
  open = [i \in 1 .. last |->
          IF i = 1 THEN 0 ELSE IF lines[i - 1].fence THEN 1 - open[i - 1] ELSE open[i - 1]]
Within(lines) == CHOOSE open : Toggled(open, lines, Len(lines) + 1)

\* The model's Open is this function, of the lines converted so far.
LEMMA OpenIsWithin == Open = Within(converted)
BY DEF Open, Within, Toggled

\* There is such a function, for any lines: each number of lines extends the one before.
LEMMA WithinExists ==
  ASSUME NEW lines \in Seq(OutLine)
  PROVE  Toggled(Within(lines), lines, Len(lines) + 1)
<1> DEFINE K == {n \in Nat : \E open : Toggled(open, lines, n + 1)}
<1>1. 0 \in K
  <2>1. Toggled([i \in 1 .. 1 |-> 0], lines, 1)
    BY DEF Toggled
  <2> QED BY <2>1
<1>2. ASSUME NEW n \in Nat, n \in K PROVE n + 1 \in K
  <2>1. PICK f : Toggled(f, lines, n + 1)
    BY <1>2
  <2> DEFINE m == n + 2
             g == [i \in 1 .. m |->
                     IF i = m THEN (IF lines[n + 1].fence THEN 1 - f[n + 1] ELSE f[n + 1]) ELSE f[i]]
  <2>2. ASSUME NEW i \in 1 .. m
        PROVE  g[i] = IF i = 1 THEN 0 ELSE IF lines[i - 1].fence THEN 1 - g[i - 1] ELSE g[i - 1]
    <3>1. CASE i = m
      <4>1. i # 1 /\ i - 1 = n + 1 /\ n + 1 \in 1 .. m /\ n + 1 # m
        BY <3>1
      <4>2. g[n + 1] = f[n + 1]
        BY <4>1
      <4>3. g[i] = IF lines[n + 1].fence THEN 1 - f[n + 1] ELSE f[n + 1]
        BY <3>1
      <4> HIDE DEF g
      <4> QED BY <4>1, <4>2, <4>3
    <3>2. CASE i # m
      <4>1. i \in 1 .. n + 1 /\ (i # 1 => i - 1 \in 1 .. n + 1 /\ i - 1 # m)
        BY <3>2
      <4>2. g[i] = f[i] /\ (i # 1 => g[i - 1] = f[i - 1])
        BY <4>1, <3>2
      <4>3. f[i] = IF i = 1 THEN 0 ELSE IF lines[i - 1].fence THEN 1 - f[i - 1] ELSE f[i - 1]
        BY <2>1, <4>1 DEF Toggled
      <4> HIDE DEF g
      <4> QED BY <4>1, <4>2, <4>3
    <3> QED BY <3>1, <3>2
  <2>3. Toggled(g, lines, m)
    BY <2>2 DEF Toggled
  <2> QED BY <2>3
<1> HIDE DEF K
<1>3. Len(lines) \in Nat
  OBVIOUS
<1>4. 0 .. Len(lines) \subseteq K
  BY <1>1, <1>2, <1>3, UpToN
<1>5. \E open : Toggled(open, lines, Len(lines) + 1)
  BY <1>3, <1>4 DEF K
<1> QED BY <1>5 DEF Within

\* It is read line by line.
LEMMA WithinUnfolds ==
  ASSUME NEW lines \in Seq(OutLine)
  PROVE  /\ Within(lines)[1] = 0
         /\ \A i \in 1 .. Len(lines) :
              Within(lines)[i + 1] =
                IF lines[i].fence THEN 1 - Within(lines)[i] ELSE Within(lines)[i]
<1>1. Within(lines)[1] = 0
  BY WithinExists DEF Toggled
<1>2. ASSUME NEW i \in 1 .. Len(lines)
      PROVE  Within(lines)[i + 1] =
               IF lines[i].fence THEN 1 - Within(lines)[i] ELSE Within(lines)[i]
  <2>1. i + 1 \in 1 .. Len(lines) + 1 /\ i + 1 # 1 /\ i + 1 - 1 = i
    OBVIOUS
  <2> QED BY <2>1, WithinExists DEF Toggled
<1> QED BY <1>1, <1>2

\* Lines that come later do not change what stands in a fence, nor does a length.
LEMMA WithinIsOfFences ==
  ASSUME NEW lines \in Seq(OutLine), NEW more \in Seq(OutLine), Len(lines) <= Len(more),
         \A i \in 1 .. Len(lines) : more[i].fence = lines[i].fence
  PROVE  \A i \in 1 .. Len(lines) + 1 : Within(more)[i] = Within(lines)[i]
<1> DEFINE K == {n \in 0 .. Len(lines) : Within(more)[n + 1] = Within(lines)[n + 1]}
<1>1. 0 \in K
  BY WithinUnfolds
<1>2. ASSUME NEW n \in 0 .. Len(lines) - 1, n \in K PROVE n + 1 \in K
  <2>1. n + 1 \in 1 .. Len(lines) /\ n + 1 \in 1 .. Len(more)
    OBVIOUS
  <2>2. /\ Within(lines)[n + 1 + 1] =
             IF lines[n + 1].fence THEN 1 - Within(lines)[n + 1] ELSE Within(lines)[n + 1]
        /\ Within(more)[n + 1 + 1] =
             IF more[n + 1].fence THEN 1 - Within(more)[n + 1] ELSE Within(more)[n + 1]
    BY <2>1, WithinUnfolds
  <2> QED BY <1>2, <2>1, <2>2
<1> HIDE DEF K
<1>3. Len(lines) \in Nat
  OBVIOUS
<1>4. 0 .. Len(lines) \subseteq K
  BY <1>1, <1>2, <1>3, UpToN
<1>5. ASSUME NEW i \in 1 .. Len(lines) + 1 PROVE Within(more)[i] = Within(lines)[i]
  <2>1. i - 1 \in 0 .. Len(lines) /\ i - 1 + 1 = i
    OBVIOUS
  <2> QED BY <1>4, <2>1 DEF K
<1> QED BY <1>5

\* No more than one fence is open.
LEMMA WithinIsOneOrNone ==
  ASSUME NEW lines \in Seq(OutLine)
  PROVE  \A i \in 1 .. Len(lines) + 1 : Within(lines)[i] \in {0, 1}
<1> DEFINE K == {n \in 0 .. Len(lines) : Within(lines)[n + 1] \in {0, 1}}
<1>1. 0 \in K
  BY WithinUnfolds
<1>2. ASSUME NEW n \in 0 .. Len(lines) - 1, n \in K PROVE n + 1 \in K
  <2>1. n + 1 \in 1 .. Len(lines)
    OBVIOUS
  <2>2. Within(lines)[n + 1 + 1] =
          IF lines[n + 1].fence THEN 1 - Within(lines)[n + 1] ELSE Within(lines)[n + 1]
    BY <2>1, WithinUnfolds
  <2> QED BY <1>2, <2>1, <2>2
<1>3. Len(lines) \in Nat
  OBVIOUS
<1> HIDE DEF K
<1>4. 0 .. Len(lines) \subseteq K
  BY <1>1, <1>2, <1>3, UpToN
<1>5. ASSUME NEW i \in 1 .. Len(lines) + 1 PROVE Within(lines)[i] \in {0, 1}
  <2>1. i - 1 \in 0 .. Len(lines) /\ i - 1 + 1 = i
    OBVIOUS
  <2> QED BY <1>4, <2>1 DEF K
<1> QED BY <1>5

-----------------------------------------------------------------------------
(* RichText: the fences of CommonMark                                      *)

\* What a reader takes from line to line.
ReadBy(open, count, kinds) ==
  open = [i \in 1 .. count + 1 |-> IF i = 1 THEN "none" ELSE Behind(open[i - 1], kinds[i - 1])]

\* There is such a reading of any lines: the model's.
LEMMA ReadingExists ==
  ASSUME NEW count \in Nat, NEW kinds
  PROVE  ReadBy(Reading(count, kinds), count, kinds)
<1> DEFINE K == {n \in Nat : \E open : ReadBy(open, n, kinds)}
<1>1. 0 \in K
  <2>1. ReadBy([i \in 1 .. 1 |-> "none"], 0, kinds)
    BY DEF ReadBy
  <2> QED BY <2>1
<1>2. ASSUME NEW n \in Nat, n \in K PROVE n + 1 \in K
  <2>1. PICK f : ReadBy(f, n, kinds)
    BY <1>2
  <2> DEFINE m == n + 2
             g == [i \in 1 .. m |-> IF i = m THEN Behind(f[n + 1], kinds[n + 1]) ELSE f[i]]
  <2>2. ASSUME NEW i \in 1 .. m
        PROVE  g[i] = IF i = 1 THEN "none" ELSE Behind(g[i - 1], kinds[i - 1])
    <3>1. CASE i = m
      <4>1. i # 1 /\ i - 1 = n + 1 /\ n + 1 \in 1 .. m /\ n + 1 # m
        BY <3>1
      <4>2. g[n + 1] = f[n + 1]
        BY <4>1
      <4>3. g[i] = Behind(f[n + 1], kinds[n + 1])
        BY <3>1
      <4> HIDE DEF g
      <4> QED BY <4>1, <4>2, <4>3
    <3>2. CASE i # m
      <4>1. i \in 1 .. n + 1 /\ (i # 1 => i - 1 \in 1 .. n + 1 /\ i - 1 # m)
        BY <3>2
      <4>2. g[i] = f[i] /\ (i # 1 => g[i - 1] = f[i - 1])
        BY <4>1, <3>2
      <4>3. f[i] = IF i = 1 THEN "none" ELSE Behind(f[i - 1], kinds[i - 1])
        BY <2>1, <4>1 DEF ReadBy
      <4> HIDE DEF g
      <4> QED BY <4>1, <4>2, <4>3
    <3> QED BY <3>1, <3>2
  <2>3. n + 1 + 1 = m
    OBVIOUS
  <2>4. ReadBy(g, n + 1, kinds)
    BY <2>2, <2>3 DEF ReadBy
  <2> QED BY <2>4
<1> HIDE DEF K
<1>3. count \in 0 .. count /\ 0 .. count \subseteq K
  BY <1>1, <1>2, UpToN
<1>4. \E open : ReadBy(open, count, kinds)
  BY <1>3 DEF K
<1>5. Reading(count, kinds) = CHOOSE open : ReadBy(open, count, kinds)
  BY DEF Reading, ReadBy
<1> QED BY <1>4, <1>5

\* It goes from line to line.
LEMMA ReadingUnfolds ==
  ASSUME NEW count \in Nat, NEW kinds
  PROVE  /\ Reading(count, kinds)[1] = "none"
         /\ \A i \in 1 .. count :
              Reading(count, kinds)[i + 1] = Behind(Reading(count, kinds)[i], kinds[i])
<1> DEFINE open == Reading(count, kinds)
<1>1. ReadBy(open, count, kinds)
  BY ReadingExists
<1> HIDE DEF open
<1>2. open[1] = "none"
  <2>1. 1 \in 1 .. count + 1
    OBVIOUS
  <2> QED BY <1>1, <2>1 DEF ReadBy
<1>3. ASSUME NEW i \in 1 .. count PROVE open[i + 1] = Behind(open[i], kinds[i])
  <2>1. i + 1 \in 1 .. count + 1 /\ i + 1 # 1 /\ i + 1 - 1 = i
    OBVIOUS
  <2> QED BY <1>1, <2>1 DEF ReadBy
<1> QED BY <1>2, <1>3 DEF open

LEMMA OpenFenceUnfolds ==
  ASSUME text \in Seq(Line)
  PROVE  /\ OpenFence[1] = "none"
         /\ \A i \in 1 .. Len(text) : OpenFence[i + 1] = Behind(OpenFence[i], text[i].kind)
<1> DEFINE kinds == [i \in 1 .. Len(text) |-> text[i].kind]
<1>1. Len(text) \in Nat /\ \A i \in 1 .. Len(text) : kinds[i] = text[i].kind
  OBVIOUS
<1>2. OpenFence = Reading(Len(text), kinds)
  BY DEF OpenFence
<1> HIDE DEF kinds
<1> QED BY <1>1, <1>2, ReadingUnfolds

\* What is open is a fence of backticks, or of tildes.
LEMMA OpenFenceType ==
  ASSUME text \in Seq(Line)
  PROVE  \A i \in 1 .. Len(text) + 1 : OpenFence[i] \in {"none", "backticks", "long_backticks", "tildes"}
<1> DEFINE K == {n \in 0 .. Len(text) : OpenFence[n + 1] \in {"none", "backticks", "long_backticks", "tildes"}}
<1>1. 0 \in K
  BY OpenFenceUnfolds
<1>2. ASSUME NEW n \in 0 .. Len(text) - 1, n \in K PROVE n + 1 \in K
  <2>1. n + 1 \in 1 .. Len(text)
    OBVIOUS
  <2>2. OpenFence[n + 1 + 1] = Behind(OpenFence[n + 1], text[n + 1].kind)
    BY <2>1, OpenFenceUnfolds
  <2> QED BY <1>2, <2>1, <2>2 DEF Behind, Closes
<1>3. Len(text) \in Nat
  OBVIOUS
<1> HIDE DEF K
<1>4. 0 .. Len(text) \subseteq K
  BY <1>1, <1>2, <1>3, UpToN
<1>5. ASSUME NEW i \in 1 .. Len(text) + 1 PROVE OpenFence[i] \in {"none", "backticks", "long_backticks", "tildes"}
  <2>1. i - 1 \in 0 .. Len(text) /\ i - 1 + 1 = i
    OBVIOUS
  <2> QED BY <1>4, <2>1 DEF K
<1> QED BY <1>5

-----------------------------------------------------------------------------
(* RichText: the size of a text                                            *)

\* sum[n] is the size of the first n lines.
Counted(sum, last) ==
  sum = [n \in 0 .. last |-> IF n = 0 THEN 0 ELSE converted[n].len + sum[n - 1]]

\* The model's SizeUpTo is one, for any lines.
LEMMA SizeExists == ASSUME converted \in Seq(OutLine) PROVE Counted(SizeUpTo, Len(converted))
<1> DEFINE K == {n \in Nat : \E sum : Counted(sum, n)}
<1>1. 0 \in K
  <2>1. Counted([i \in 0 .. 0 |-> 0], 0)
    BY DEF Counted
  <2> QED BY <2>1
<1>2. ASSUME NEW n \in Nat, n \in K PROVE n + 1 \in K
  <2>1. PICK f : Counted(f, n)
    BY <1>2
  <2> DEFINE m == n + 1
             g == [i \in 0 .. m |-> IF i = m THEN converted[m].len + f[n] ELSE f[i]]
  <2>2. ASSUME NEW i \in 0 .. m
        PROVE  g[i] = IF i = 0 THEN 0 ELSE converted[i].len + g[i - 1]
    <3>1. CASE i = m
      BY <3>1
    <3>2. CASE i # m
      <4>1. i \in 0 .. n /\ (i # 0 => i - 1 \in 0 .. n /\ i - 1 # m)
        BY <3>2
      <4>2. g[i] = f[i] /\ (i # 0 => g[i - 1] = f[i - 1])
        BY <4>1, <3>2
      <4> HIDE DEF g
      <4> QED BY <2>1, <4>1, <4>2 DEF Counted
    <3> QED BY <3>1, <3>2
  <2>3. Counted(g, m)
    BY <2>2 DEF Counted
  <2> QED BY <2>3
<1>3. Len(converted) \in Nat
  OBVIOUS
<1> HIDE DEF K
<1>4. 0 .. Len(converted) \subseteq K
  BY <1>1, <1>2, <1>3, UpToN
<1>5. \E sum : Counted(sum, Len(converted))
  BY <1>3, <1>4 DEF K
<1>6. SizeUpTo = CHOOSE sum : Counted(sum, Len(converted))
  BY DEF SizeUpTo, Counted
<1> QED BY <1>5, <1>6

\* A text has a size.
LEMMA SizeIsNat == ASSUME converted \in Seq(OutLine) PROVE Size \in Nat
<1> DEFINE sum == SizeUpTo
           K == {n \in 0 .. Len(converted) : sum[n] \in Nat}
<1>0. Counted(sum, Len(converted)) /\ Size = sum[Len(converted)]
  BY SizeExists DEF Size
<1> HIDE DEF sum
<1>1. 0 \in K
  BY <1>0 DEF Counted
<1>2. ASSUME NEW n \in 0 .. Len(converted) - 1, n \in K PROVE n + 1 \in K
  <2>1. n + 1 \in 1 .. Len(converted) /\ n + 1 - 1 = n
    OBVIOUS
  <2>2. sum[n + 1] = converted[n + 1].len + sum[n]
    BY <1>0, <2>1 DEF Counted
  <2>3. converted[n + 1] \in OutLine
    BY <2>1
  <2>4. converted[n + 1].len \in Nat
    BY <2>3 DEF OutLine
  <2> QED BY <1>2, <2>1, <2>2, <2>4
<1>3. Len(converted) \in Nat
  OBVIOUS
<1> HIDE DEF K
<1>4. 0 .. Len(converted) \subseteq K
  BY <1>1, <1>2, <1>3, UpToN
<1> QED BY <1>0, <1>3, <1>4 DEF K

-----------------------------------------------------------------------------
(* RichText: conversion                                                    *)

\* What CodeIsKept says of one line.
IsCode(i) == OpenFence[i] # "none" /\ ~IsFence(text[i].kind)
KeptAt(i, j) ==
  converted[j].source = i /\ converted[j].asis /\ ~converted[j].fence /\ Inside(j)
KeptUpTo(n) == \A i \in 1 .. n : IsCode(i) => \E j \in DOMAIN converted : KeptAt(i, j)

\* While a text is converted nothing is split, every line but the last has a newline,
\* and the last line is not empty. Where no code shows fences of its own, a fence is
\* open for the converter as it is by CommonMark, and in the converted text too.
Conversion ==
  /\ at \in 1 .. Len(text) + 1
  /\ pieces = <<>> /\ piece = Empty /\ begun = FALSE /\ col = 0 /\ blocks = 0 /\ fence = 0
  /\ ~(fenced /\ run)
  /\ \A j \in DOMAIN converted : converted[j].len >= 1 /\ (converted[j].fence => converted[j].len >= 4)
  /\ at > Len(text) /\ ~run => converted # <<>> /\ converted[Len(converted)].len >= 2
  /\ Plain =>
       /\ Inside(Len(converted) + 1) <=> fenced \/ run
       /\ fenced <=> OpenFence[at] # "none"
       /\ KeptUpTo(at - 1)

\* What is split later.
LinesHaveText ==
  /\ converted # <<>>
  /\ \A j \in DOMAIN converted : converted[j].len >= 1 /\ (converted[j].fence => converted[j].len >= 3)

\* A text is a sequence of lines that are long enough for their kind.
LEMMA TextType ==
  ASSUME text \in Texts
  PROVE  /\ text \in Seq(Line) /\ text # <<>> /\ text[Len(text)].kind # "blank"
         /\ \A i \in DOMAIN text :
              /\ text[i] \in Line /\ text[i].len \in Nat
              /\ text[i].kind # "blank" => text[i].len >= 1
              /\ text[i].kind \in {"backticks", "backticks_info", "long_backticks", "tildes"} =>
                   text[i].len >= 3
              /\ Deep(text[i].kind) => text[i].len >= 4
              /\ text[i].kind = "deep_backticks" => text[i].len >= 7
<1>1. text \in Seq(Line) /\ text # <<>> /\ text[Len(text)].kind # "blank"
  BY TextAssumption
<1>2. ASSUME NEW i \in DOMAIN text
      PROVE  /\ text[i] \in Line /\ text[i].len \in Nat
             /\ text[i].kind # "blank" => text[i].len >= 1
             /\ text[i].kind \in {"backticks", "backticks_info", "long_backticks", "tildes"} =>
                   text[i].len >= 3
             /\ Deep(text[i].kind) => text[i].len >= 4
             /\ text[i].kind = "deep_backticks" => text[i].len >= 7
  <2>0. text \in Seq(Line) /\ i \in 1 .. Len(text)
    <3>1. text \in Seq(Line)
      BY <1>1
    <3>2. DOMAIN text = 1 .. Len(text)
      BY <3>1
    <3> QED BY <3>1, <3>2
  <2>1. text[i] \in Line
    BY <2>0, ElementOfSeq
  <2>2. text[i].len \in Nat
    BY <2>1 DEF Line
  <2>3. text[i].kind = "blank" <=> text[i].len = 0
    BY TextAssumption
  <2>4. /\ text[i].kind \in {"backticks", "backticks_info", "long_backticks", "tildes"} =>
                   text[i].len >= 3
        /\ text[i].kind \in {"deep_code", "deep_item"} => text[i].len >= 4
        /\ text[i].kind = "deep_backticks" => text[i].len >= 7
    BY TextAssumption
  <2>5. text[i].kind # "blank" => text[i].len >= 1
    <3>1. text[i].kind # "blank" => text[i].len # 0
      BY <2>3, Zenon
    <3>2. text[i].len # 0 => text[i].len >= 1
      BY <2>2
    <3> QED BY <3>1, <3>2, Zenon
  <2>6. Deep(text[i].kind) => text[i].len >= 4
    BY <2>2, <2>4 DEF Deep
  <2> QED BY <2>1, <2>2, <2>4, <2>5, <2>6
<1> QED BY <1>1, <1>2

\* One more line.
LEMMA WithinOneMore ==
  ASSUME NEW lines \in Seq(OutLine), NEW line \in OutLine
  PROVE  LET more == lines \o <<line>>
         IN  /\ more \in Seq(OutLine) /\ Len(more) = Len(lines) + 1 /\ more[Len(lines) + 1] = line
             /\ \A j \in 1 .. Len(lines) : more[j] = lines[j]
             /\ \A j \in 1 .. Len(lines) + 1 : Within(more)[j] = Within(lines)[j]
             /\ Within(lines)[Len(lines) + 1] \in {0, 1}
             /\ Within(more)[Len(more) + 1] =
                  IF line.fence THEN 1 - Within(lines)[Len(lines) + 1]
                  ELSE Within(lines)[Len(lines) + 1]
<1> DEFINE more == lines \o <<line>>
<1>1. /\ more \in Seq(OutLine) /\ Len(more) = Len(lines) + 1 /\ more[Len(lines) + 1] = line
      /\ \A j \in 1 .. Len(lines) : more[j] = lines[j]
  OBVIOUS
<1> HIDE DEF more
<1>2. \A j \in 1 .. Len(lines) + 1 : Within(more)[j] = Within(lines)[j]
  BY <1>1, WithinIsOfFences
<1>3. Within(lines)[Len(lines) + 1] \in {0, 1}
  BY WithinIsOneOrNone
<1>4. Len(lines) + 1 \in 1 .. Len(more)
  BY <1>1
<1>5. Within(more)[Len(lines) + 1 + 1] =
        IF more[Len(lines) + 1].fence THEN 1 - Within(more)[Len(lines) + 1]
        ELSE Within(more)[Len(lines) + 1]
  BY <1>1, <1>4, WithinUnfolds
<1> QED BY <1>1, <1>2, <1>3, <1>5 DEF more

\* What is kept stays, and whether a fence is open is known behind the new line.
LEMMA OneMoreLine ==
  ASSUME converted \in Seq(OutLine), NEW line \in OutLine, converted' = converted \o <<line>>
  PROVE  /\ converted' \in Seq(OutLine) /\ Len(converted') = Len(converted) + 1
         /\ converted'[Len(converted) + 1] = line
         /\ \A j \in 1 .. Len(converted) : converted'[j] = converted[j]
         /\ \A j \in 1 .. Len(converted) + 1 : Inside(j)' <=> Inside(j)
         /\ Inside(Len(converted) + 1)' <=>
              IF line.fence THEN ~Inside(Len(converted) + 1) ELSE Inside(Len(converted) + 1)
<1>1. Open = Within(converted)
  BY OpenIsWithin
<1>2. Open' = Within(converted')
  BY DEF Open, Within, Toggled
<1>3. /\ converted' \in Seq(OutLine) /\ Len(converted') = Len(converted) + 1
      /\ converted'[Len(converted) + 1] = line
      /\ \A j \in 1 .. Len(converted) : converted'[j] = converted[j]
      /\ \A j \in 1 .. Len(converted) + 1 : Within(converted')[j] = Within(converted)[j]
      /\ Within(converted)[Len(converted) + 1] \in {0, 1}
      /\ Within(converted')[Len(converted') + 1] =
           IF line.fence THEN 1 - Within(converted)[Len(converted) + 1]
           ELSE Within(converted)[Len(converted) + 1]
  BY WithinOneMore
<1>4. \A j \in 1 .. Len(converted) + 1 : Inside(j)' <=> Inside(j)
  BY <1>1, <1>2, <1>3 DEF Inside
<1>5. Inside(Len(converted) + 1)' <=> Within(converted')[Len(converted') + 1] = 1
  BY <1>2 DEF Inside
<1>6. Inside(Len(converted) + 1) <=> Within(converted)[Len(converted) + 1] = 1
  BY <1>1 DEF Inside
<1> QED BY <1>3, <1>4, <1>5, <1>6

\* Nothing that is read line by line changes with other variables.
LEMMA SameText ==
  ASSUME UNCHANGED <<text, converted>>
  PROVE  /\ Open' = Open /\ OpenFence' = OpenFence /\ Size' = Size
         /\ (FitsSingleMessage' <=> FitsSingleMessage) /\ (Plain' <=> Plain)
         /\ (ShortFences' <=> ShortFences)
<1>1. Open' = Open /\ OpenFence' = OpenFence /\ SizeUpTo' = SizeUpTo
  BY DEF Open, OpenFence, SizeUpTo
<1>2. Size' = Size
  BY <1>1 DEF Size
<1>3. Plain' <=> Plain
  BY <1>1 DEF Plain
<1>4. ShortFences' <=> ShortFences
  BY DEF ShortFences
<1> QED BY <1>1, <1>2, <1>3, <1>4 DEF FitsSingleMessage

\* A number below b that is not below a.
LEMMA FromOn ==
  ASSUME NEW a \in Nat, NEW b \in Nat, NEW i \in 1 .. b - 1, i \notin 1 .. a - 1
  PROVE  i \in a .. b - 1
OBVIOUS

\* A line that is converted keeps all this, if it is long enough, opens and closes
\* fences as the converter does, and is kept where it is code.
LEMMA ConvertsLine ==
  ASSUME TextTypeOK, Conversion, stage = "converting",
         NEW line \in OutLine, converted' = converted \o <<line>>,
         line.len >= 1, line.fence => line.len >= 4,
         UNCHANGED <<text, stage, splitter, sent>>,
         at' \in at .. Len(text) + 1, fenced' \in BOOLEAN, run' \in BOOLEAN, ~(fenced' /\ run'),
         at' > Len(text) /\ ~run' => line.len >= 2,
         Plain => ((IF line.fence THEN ~(fenced \/ run) ELSE fenced \/ run) <=> (fenced' \/ run')),
         Plain => (fenced' <=> OpenFence[at'] # "none"),
         Plain => \A i \in at .. at' - 1 : IsCode(i) =>
                    line.source = i /\ line.asis /\ ~line.fence /\ (fenced \/ run)
  PROVE  TextTypeOK' /\ Conversion'
<1>1. converted \in Seq(OutLine) /\ text \in Texts /\ text \in Seq(Line) /\ at \in 1 .. Len(text) + 1
  BY TextType DEF TextTypeOK, Conversion, OutLine
<1>2. at \in Nat /\ at' \in Nat
  BY <1>1
<1>3. /\ converted' \in Seq(OutLine) /\ Len(converted') = Len(converted) + 1
      /\ converted'[Len(converted) + 1] = line
      /\ \A j \in 1 .. Len(converted) : converted'[j] = converted[j]
      /\ \A j \in 1 .. Len(converted) + 1 : Inside(j)' <=> Inside(j)
      /\ Inside(Len(converted) + 1)' <=>
           IF line.fence THEN ~Inside(Len(converted) + 1) ELSE Inside(Len(converted) + 1)
  BY <1>1, OneMoreLine
<1>4. text' = text /\ OpenFence' = OpenFence
  BY DEF OpenFence
<1>5. (Plain' <=> Plain) /\ \A i : IsCode(i)' <=> IsCode(i)
  BY <1>4 DEF Plain, IsCode
<1>6. DOMAIN converted' = 1 .. Len(converted) + 1 /\ DOMAIN converted = 1 .. Len(converted)
  BY <1>1, <1>3
<1>7. ASSUME NEW i, \E j \in DOMAIN converted : KeptAt(i, j)
      PROVE  \E j \in DOMAIN converted' : KeptAt(i, j)'
  <2>1. PICK j \in DOMAIN converted : KeptAt(i, j)
    BY <1>7
  <2>2. j \in DOMAIN converted' /\ converted'[j] = converted[j] /\ (Inside(j)' <=> Inside(j))
    BY <1>1, <1>3, <1>6
  <2>3. KeptAt(i, j)'
    BY <2>1, <2>2 DEF KeptAt
  <2> QED BY <2>2, <2>3
<1>8. TextTypeOK'
  <2>1. converted' \in Seq([fence : BOOLEAN, len : Nat, source : Nat, asis : BOOLEAN])
    BY <1>3 DEF OutLine
  <2>2. at' \in Nat /\ UNCHANGED <<text, stage, col, blocks, fence, begun, piece, pieces, sent>>
    BY <1>1 DEF splitter
  <2>3. text' \in Texts /\ stage' \in {"converting", "splitting", "sending", "done"}
    BY <2>2 DEF TextTypeOK
  <2>4. /\ col' \in Nat /\ blocks' \in Nat /\ fence' \in Nat /\ begun' \in BOOLEAN
        /\ piece' \in Piece /\ pieces' \in Seq(Piece)
        /\ sent' \in [as : {"nothing", "messages", "file"}, count : Nat]
    BY <2>2, Zenon DEF TextTypeOK
  <2> QED BY <2>1, <2>2, <2>3, <2>4 DEF TextTypeOK
<1>9. Plain' => (Inside(Len(converted) + 1)' <=> fenced' \/ run')
  BY <1>3, <1>5 DEF Conversion
<1>10. ASSUME Plain' PROVE (fenced' <=> OpenFence'[at'] # "none") /\ KeptUpTo(at - 1)'
  <2>1. ASSUME NEW i \in 1 .. at' - 1, IsCode(i)'
        PROVE  \E j \in DOMAIN converted' : KeptAt(i, j)'
    <3>1. CASE i \in 1 .. at - 1
      <4>1. KeptUpTo(at - 1) /\ IsCode(i)
        BY <1>5, <1>10, <2>1 DEF Conversion
      <4>2. \E j \in DOMAIN converted : KeptAt(i, j)
        BY <3>1, <4>1 DEF KeptUpTo
      <4> QED BY <1>7, <4>2
    <3>2. CASE i \notin 1 .. at - 1
      <4>1. i \in at .. at' - 1
        <5>1. i \in 1 .. at' - 1 /\ at \in Nat /\ at' \in Nat
          BY <1>2, <2>1
        <5> QED BY <3>2, <5>1, FromOn, Zenon
      <4>2. line.source = i /\ line.asis /\ ~line.fence /\ (fenced \/ run)
        BY <1>5, <1>10, <2>1, <4>1
      <4>3. Inside(Len(converted) + 1)
        BY <1>5, <1>10, <4>2 DEF Conversion
      <4> DEFINE j == Len(converted) + 1
      <4>4. j \in DOMAIN converted' /\ converted'[j] = line
        BY <1>1, <1>3, <1>6
      <4>5. Open'[j] = 1
        <5>1. j \in 1 .. Len(converted) + 1
          BY <1>1
        <5>2. \A k \in 1 .. Len(converted) + 1 : Open'[k] = 1 <=> Open[k] = 1
          BY <1>3 DEF Inside
        <5> QED BY <4>3, <5>1, <5>2 DEF Inside
      <4> HIDE DEF j
      <4>6. \E k \in DOMAIN converted' :
              /\ converted'[k].source = i /\ converted'[k].asis /\ ~converted'[k].fence
              /\ Open'[k] = 1
        BY <4>2, <4>4, <4>5
      <4> QED BY <4>6 DEF KeptAt, Inside
    <3> QED BY <3>1, <3>2
  <2>2. KeptUpTo(at - 1)'
    BY <2>1 DEF KeptUpTo
  <2> QED BY <1>4, <1>5, <1>10, <2>2
<1>11. /\ at' \in 1 .. Len(text') + 1
       /\ pieces' = <<>> /\ piece' = Empty /\ begun' = FALSE /\ col' = 0 /\ blocks' = 0 /\ fence' = 0
  BY <1>1, <1>4 DEF Conversion, splitter
<1>12. \A j \in DOMAIN converted' :
         converted'[j].len >= 1 /\ (converted'[j].fence => converted'[j].len >= 4)
  BY <1>1, <1>3, <1>6 DEF Conversion
<1>13. at' > Len(text') /\ ~run' => converted' # <<>> /\ converted'[Len(converted')].len >= 2
  BY <1>1, <1>3, <1>4
<1> QED BY <1>8, <1>9, <1>10, <1>11, <1>12, <1>13 DEF Conversion

\* The steps of to_telegram_markdown.
LEMMA ConversionKeeps ==
  ASSUME TextTypeOK, Conversion,
         \/ FenceLine \/ CodeLine \/ Heading \/ PlainLine
         \/ IndentedRunStarts \/ IndentedLine \/ IndentedRunEnds
  PROVE  TextTypeOK' /\ Conversion'
<1>1. /\ text \in Texts /\ text \in Seq(Line) /\ at \in 1 .. Len(text) + 1
      /\ fenced \in BOOLEAN /\ run \in BOOLEAN /\ ~(fenced /\ run)
  BY TextType DEF TextTypeOK, Conversion
<1>2. Len(text) \in Nat /\ at \in Nat
  BY <1>1
<1>3. /\ OpenFence[1] = "none"
      /\ \A i \in 1 .. Len(text) : OpenFence[i + 1] = Behind(OpenFence[i], text[i].kind)
      /\ \A i \in 1 .. Len(text) + 1 : OpenFence[i] \in {"none", "backticks", "long_backticks", "tildes"}
  BY <1>1, OpenFenceUnfolds, OpenFenceType
<1>4. \A i \in 1 .. Len(text) :
        /\ text[i].len \in Nat
        /\ text[i].kind # "blank" => text[i].len >= 1
        /\ IsFence(text[i].kind) => text[i].len >= 3
        /\ Deep(text[i].kind) => text[i].len >= 4
        /\ text[i].kind = "deep_backticks" => text[i].len >= 7
  BY <1>1, TextType DEF IsFence
<1>5. Plain => (fenced <=> OpenFence[at] # "none")
  BY DEF Conversion
<1>6. text[Len(text)].kind # "blank"
  BY <1>1, TextType
<1>7. ASSUME Plain, at \in 1 .. Len(text)
       PROVE  /\ text[at].kind # "deep_backticks"
              /\ OpenFence[at] # "none" /\ IsFence(text[at].kind) =>
                   Closes(text[at].kind, OpenFence[at])
              /\ OpenFence[at] \in {"none", "backticks", "long_backticks", "tildes"}
              /\ OpenFence[at + 1] = Behind(OpenFence[at], text[at].kind)
  <2>1. at \in DOMAIN text
    BY <1>1, <1>7
  <2>2. /\ text[at].kind # "deep_backticks"
        /\ OpenFence[at] # "none" /\ IsFence(text[at].kind) =>
                   Closes(text[at].kind, OpenFence[at])
    BY <1>7, <2>1 DEF Plain
  <2>3. at \in 1 .. Len(text) + 1
    BY <1>1
  <2> QED BY <1>3, <1>7, <2>2, <2>3
<1>8. ASSUME at \in 1 .. Len(text), text[at].kind # "blank" => text[at].len >= 1,
              at + 1 > Len(text)
       PROVE  text[at].len >= 1
  <2>1. at = Len(text)
    BY <1>2, <1>8
  <2> QED BY <1>6, <1>8, <2>1
<1>9. CASE FenceLine
  <2> DEFINE line == Out(TRUE, text[at].len, text[at].kind # "tildes")
  <2>1. /\ stage = "converting" /\ at \in 1 .. Len(text) /\ ~run /\ IsFence(text[at].kind)
        /\ converted' = converted \o <<line>>
        /\ fenced' = ~fenced /\ at' = at + 1 /\ run' = run
        /\ UNCHANGED <<text, stage, splitter, sent>>
    BY <1>1, <1>2, <1>9 DEF FenceLine, Converting, Lines
  <2>2. line \in OutLine /\ line.len >= 4 /\ line.len \in Nat /\ line.fence
    BY <1>2, <1>4, <2>1 DEF Out, OutLine
  <2>3. ASSUME Plain PROVE fenced' <=> OpenFence[at'] # "none"
    BY <1>5, <1>7, <2>1, <2>3 DEF Behind, Closes, IsFence
  <2>4. at' \in at .. Len(text) + 1 /\ fenced' \in BOOLEAN /\ run' \in BOOLEAN /\ ~(fenced' /\ run')
    BY <1>1, <1>2, <2>1
  <2>5. \A i \in at .. at' - 1 : ~IsCode(i)
    <3>1. \A i \in at .. at' - 1 : i = at
      BY <1>2, <2>1
    <3> QED BY <2>1, <3>1 DEF IsCode
  <2>6. (IF line.fence THEN ~(fenced \/ run) ELSE fenced \/ run) <=> (fenced' \/ run')
    BY <2>1, <2>2, Zenon
  <2> HIDE DEF line
  <2>7. line.len >= 1 /\ line.len >= 2
    BY <2>2
  <2> QED BY <2>1, <2>2, <2>3, <2>4, <2>5, <2>6, <2>7, ConvertsLine
<1>10. CASE CodeLine
  <2> DEFINE line == Out(FALSE, text[at].len, TRUE)
  <2>1. /\ stage = "converting" /\ at \in 1 .. Len(text) /\ ~run /\ fenced /\ ~IsFence(text[at].kind)
        /\ converted' = converted \o <<line>>
        /\ fenced' = fenced /\ at' = at + 1 /\ run' = run
        /\ UNCHANGED <<text, stage, splitter, sent>>
    BY <1>1, <1>2, <1>10 DEF CodeLine, Converting, Lines
  <2>2. /\ line \in OutLine /\ line.len >= 1 /\ ~line.fence /\ line.source = at /\ line.asis
        /\ line.len = text[at].len + 1
    BY <1>2, <1>4, <2>1 DEF Out, OutLine
  <2>3. ASSUME Plain PROVE fenced' <=> OpenFence[at'] # "none"
    BY <1>5, <1>7, <2>1, <2>3 DEF Behind, Closes, IsFence
  <2>4. at' \in at .. Len(text) + 1 /\ fenced' \in BOOLEAN /\ run' \in BOOLEAN /\ ~(fenced' /\ run')
    BY <1>1, <1>2, <2>1
  <2>5. \A i \in at .. at' - 1 : i = at
    BY <1>2, <2>1
  <2>6. (IF line.fence THEN ~(fenced \/ run) ELSE fenced \/ run) <=> (fenced' \/ run')
    BY <2>1, <2>2, Zenon
  <2>7. ASSUME at' > Len(text) PROVE line.len >= 2
    <3>1. text[at].len \in Nat /\ (text[at].kind # "blank" => text[at].len >= 1)
      BY <1>4, <2>1
    <3>2. at + 1 > Len(text) /\ at \in 1 .. Len(text)
      BY <2>1, <2>7
    <3>3. text[at].len >= 1
      BY <1>8, <3>1, <3>2
    <3> HIDE DEF line
    <3> QED BY <2>2, <3>1, <3>3
  <2>8. \A i \in at .. at' - 1 : line.source = i /\ line.asis /\ ~line.fence /\ (fenced \/ run)
    BY <2>1, <2>2, <2>5
  <2> HIDE DEF line
  <2> QED BY <2>1, <2>2, <2>3, <2>4, <2>6, <2>7, <2>8, ConvertsLine
<1>11. CASE Heading
  <2> DEFINE line == Out(FALSE, text[at].len + 2, FALSE)
  <2>1. /\ stage = "converting" /\ at \in 1 .. Len(text) - 1 /\ ~run /\ ~fenced
        /\ ~IsFence(text[at].kind) /\ text[at + 1].kind = "underline"
        /\ converted' = converted \o <<line>>
        /\ fenced' = fenced /\ at' = at + 2 /\ run' = run
        /\ UNCHANGED <<text, stage, splitter, sent>>
    BY <1>1, <1>2, <1>11 DEF Heading, Converting, Lines, Underlined
  <2>2. line \in OutLine /\ line.len >= 1 /\ line.len >= 2 /\ ~line.fence
    BY <1>2, <1>4, <2>1 DEF Out, OutLine
  <2>3. ASSUME Plain
        PROVE  OpenFence[at] = "none" /\ OpenFence[at + 1] = "none" /\ OpenFence[at + 2] = "none"
    <3>1. OpenFence[at] = "none"
      BY <1>5, <2>1, <2>3
    <3>2. OpenFence[at + 1] = "none"
      <4>1. at \in 1 .. Len(text)
        BY <1>2, <2>1
      <4>2. OpenFence[at + 1] = Behind("none", text[at].kind)
        BY <1>3, <3>1, <4>1
      <4> QED BY <2>1, <4>2 DEF Behind, IsFence
    <3>3. at + 1 \in 1 .. Len(text) /\ at + 1 + 1 = at + 2
      BY <1>2, <2>1
    <3>4. OpenFence[at + 2] = Behind(OpenFence[at + 1], text[at + 1].kind)
      BY <1>3, <3>3
    <3> QED BY <2>1, <3>1, <3>2, <3>4 DEF Behind, Closes
  <2>4. /\ at' \in at .. Len(text) + 1 /\ fenced' \in BOOLEAN /\ run' \in BOOLEAN /\ ~(fenced' /\ run')
        /\ \A i \in at .. at' - 1 : i = at \/ i = at + 1
    BY <1>1, <1>2, <2>1
  <2>5. ASSUME Plain PROVE (fenced' <=> OpenFence[at'] # "none") /\ \A i \in at .. at' - 1 : ~IsCode(i)
    BY <2>1, <2>3, <2>4, <2>5 DEF IsCode
  <2>6. (IF line.fence THEN ~(fenced \/ run) ELSE fenced \/ run) <=> (fenced' \/ run')
    BY <2>1, <2>2, Zenon
  <2> HIDE DEF line
  <2> QED BY <2>1, <2>2, <2>4, <2>5, <2>6, ConvertsLine
<1>12. CASE PlainLine
  <2> DEFINE line == Out(FALSE, text[at].len, FALSE)
  <2>1. /\ stage = "converting" /\ at \in 1 .. Len(text) /\ ~run /\ ~fenced /\ ~IsFence(text[at].kind)
        /\ converted' = converted \o <<line>>
        /\ fenced' = fenced /\ at' = at + 1 /\ run' = run
        /\ UNCHANGED <<text, stage, splitter, sent>>
    BY <1>1, <1>2, <1>12 DEF PlainLine, Converting, Lines
  <2>2. /\ line \in OutLine /\ line.len >= 1 /\ ~line.fence /\ line.len = text[at].len + 1
    BY <1>2, <1>4, <2>1 DEF Out, OutLine
  <2>3. ASSUME Plain PROVE OpenFence[at] = "none" /\ OpenFence[at'] = "none"
    BY <1>5, <1>7, <2>1, <2>3 DEF Behind, Closes, IsFence
  <2>4. at' \in at .. Len(text) + 1 /\ fenced' \in BOOLEAN /\ run' \in BOOLEAN /\ ~(fenced' /\ run')
    BY <1>1, <1>2, <2>1
  <2>5. \A i \in at .. at' - 1 : i = at
    BY <1>2, <2>1
  <2>6. (IF line.fence THEN ~(fenced \/ run) ELSE fenced \/ run) <=> (fenced' \/ run')
    BY <2>1, <2>2, Zenon
  <2>7. ASSUME at' > Len(text) PROVE line.len >= 2
    <3>1. text[at].len \in Nat /\ (text[at].kind # "blank" => text[at].len >= 1)
      BY <1>4, <2>1
    <3>2. at + 1 > Len(text) /\ at \in 1 .. Len(text)
      BY <2>1, <2>7
    <3>3. text[at].len >= 1
      BY <1>8, <3>1, <3>2
    <3> HIDE DEF line
    <3> QED BY <2>2, <3>1, <3>3
  <2>8. ASSUME Plain PROVE (fenced' <=> OpenFence[at'] # "none") /\ \A i \in at .. at' - 1 : ~IsCode(i)
    BY <2>1, <2>3, <2>5, <2>8 DEF IsCode
  <2> HIDE DEF line
  <2> QED BY <2>1, <2>2, <2>4, <2>6, <2>7, <2>8, ConvertsLine
<1>13. CASE IndentedRunStarts
  <2>1. /\ stage = "converting" /\ at \in 1 .. Len(text) /\ ~run /\ ~fenced
        /\ converted' = converted \o <<Inserted>>
        /\ fenced' = fenced /\ at' = at /\ run' = TRUE
        /\ UNCHANGED <<text, stage, splitter, sent>>
    BY <1>1, <1>2, <1>13 DEF IndentedRunStarts, Converting, Lines
  <2> DEFINE line == Inserted
  <2>2. line \in OutLine /\ line.len = 4 /\ line.fence
    BY DEF Inserted, OutLine
  <2>3. at' \in at .. Len(text) + 1 /\ at .. at' - 1 = {} /\ ~(fenced' /\ run')
    BY <1>2, <2>1
  <2>4. Plain => (fenced' <=> OpenFence[at'] # "none")
    BY <1>5, <2>1
  <2>5. fenced' \in BOOLEAN /\ run' \in BOOLEAN
    BY <1>1, <2>1
  <2>6. (IF line.fence THEN ~(fenced \/ run) ELSE fenced \/ run) <=> (fenced' \/ run')
    BY <2>1, <2>2, Zenon
  <2>7. converted' = converted \o <<line>> /\ line.len >= 1 /\ line.len >= 4 /\ line.len >= 2
    BY <2>1, <2>2
  <2> HIDE DEF line
  <2> QED BY <2>1, <2>2, <2>3, <2>4, <2>5, <2>6, <2>7, ConvertsLine
<1>14. CASE IndentedLine
  <2> DEFINE len == IF text[at].kind = "blank" THEN 0 ELSE text[at].len - 4
             line == Out(text[at].kind = "deep_backticks", len, TRUE)
  <2>1. /\ stage = "converting" /\ at \in 1 .. Len(text) /\ run
        /\ Deep(text[at].kind) \/ text[at].kind = "blank"
        /\ converted' = converted \o <<line>>
        /\ fenced' = fenced /\ at' = at + 1 /\ run' = run
        /\ UNCHANGED <<text, stage, splitter, sent>>
    BY <1>1, <1>2, <1>14 DEF IndentedLine, Converting, Lines
  <2>2. len \in Nat /\ (text[at].kind = "deep_backticks" => len >= 3)
    BY <1>4, <2>1
  <2> HIDE DEF len
  <2>3. /\ line \in OutLine /\ line.len = len + 1
        /\ line.fence <=> text[at].kind = "deep_backticks"
    <3>1. (text[at].kind = "deep_backticks") \in BOOLEAN
      OBVIOUS
    <3>2. line \in OutLine /\ line.len = len + 1
      BY <1>2, <2>2, <3>1 DEF Out, OutLine
    <3>3. line.fence <=> text[at].kind = "deep_backticks"
      BY DEF Out
    <3> QED BY <3>2, <3>3
  <2> HIDE DEF line
  <2>4. line.len >= 1 /\ (line.fence => line.len >= 4)
    BY <2>2, <2>3
  <2>5. ASSUME Plain PROVE OpenFence[at] = "none" /\ OpenFence[at'] = "none" /\ ~line.fence
    <3>1. OpenFence[at] = "none"
      BY <1>1, <1>5, <2>1, <2>5
    <3>2. text[at].kind # "deep_backticks" /\ OpenFence[at + 1] = Behind(OpenFence[at], text[at].kind)
      BY <1>7, <2>1, <2>5
    <3>3. ~line.fence
      BY <2>3, <3>2
    <3> QED BY <2>1, <3>1, <3>2, <3>3 DEF Behind, Closes, Deep
  <2>6. at' \in at .. Len(text) + 1 /\ fenced' \in BOOLEAN /\ run' \in BOOLEAN /\ ~(fenced' /\ run')
    BY <1>1, <1>2, <2>1
  <2>7. \A i \in at .. at' - 1 : i = at
    BY <1>2, <2>1
  <2>8. ASSUME Plain PROVE (IF line.fence THEN ~(fenced \/ run) ELSE fenced \/ run) <=> (fenced' \/ run')
    BY <2>1, <2>5, <2>8, Zenon
  <2>9. ASSUME Plain PROVE (fenced' <=> OpenFence[at'] # "none") /\ \A i \in at .. at' - 1 : ~IsCode(i)
    BY <1>1, <2>1, <2>5, <2>7, <2>9 DEF IsCode
  <2> QED BY <2>1, <2>3, <2>4, <2>6, <2>8, <2>9, ConvertsLine
<1>15. CASE IndentedRunEnds
  <2>1. /\ stage = "converting" /\ run
        /\ converted' = converted \o <<Inserted>>
        /\ fenced' = fenced /\ at' = at /\ run' = FALSE
        /\ UNCHANGED <<text, stage, splitter, sent>>
    BY <1>15 DEF IndentedRunEnds, Lines
  <2> DEFINE line == Inserted
  <2>2. line \in OutLine /\ line.len = 4 /\ line.fence
    BY DEF Inserted, OutLine
  <2>3. at' \in at .. Len(text) + 1 /\ at .. at' - 1 = {} /\ ~(fenced' /\ run')
    BY <1>1, <1>2, <2>1
  <2>4. Plain => (fenced' <=> OpenFence[at'] # "none")
    BY <1>5, <2>1
  <2>5. fenced' \in BOOLEAN /\ run' \in BOOLEAN /\ ~fenced
    BY <1>1, <2>1
  <2>6. (IF line.fence THEN ~(fenced \/ run) ELSE fenced \/ run) <=> (fenced' \/ run')
    BY <2>1, <2>2, <2>5, Zenon
  <2>7. converted' = converted \o <<line>> /\ line.len >= 1 /\ line.len >= 4 /\ line.len >= 2
    BY <2>1, <2>2
  <2> HIDE DEF line
  <2> QED BY <2>1, <2>2, <2>3, <2>4, <2>5, <2>6, <2>7, ConvertsLine
<1> QED BY <1>9, <1>10, <1>11, <1>12, <1>13, <1>14, <1>15

-----------------------------------------------------------------------------
(* RichText: splitting                                                     *)

\* A place follows another when no character is between them.
Follows(lines, place, to) ==
  \/ place = <<to[1], to[2] + 1>> /\ to[2] < lines[to[1]].len
  \/ place = <<to[1] + 1, 1>> /\ to[2] = lines[to[1]].len

\* Where some pieces end, another may begin.
Continues(lines, ps, place) ==
  IF ps = <<>> THEN place = <<1, 1>> ELSE Follows(lines, place, ps[Len(ps)].to)

\* What PiecesStandAlone and PiecesFit say of a piece.
Sendable(lines, p) ==
  LET from == p.from[1]
      to   == p.to[1]
      torn == p.to[2] < lines[to].len
  IN /\ from \in 1 .. to /\ to \in 1 .. Len(lines)
     /\ p.opened > 0 <=> Within(lines)[from] = 1
     /\ p.mended <=> IF torn THEN Within(lines)[to] = 1 ELSE Within(lines)[to + 1] = 1
     /\ torn => ~lines[to].fence
     /\ p.size <= Safe + 4 /\ LinesOf(p) <= Blocks + 2

\* Pieces that are one another's continuation, each of which can be sent.
Chain(lines, ps) ==
  /\ ps # <<>> => ps[1].from = <<1, 1>>
  /\ \A i \in 1 .. Len(ps) - 1 : Follows(lines, ps[i + 1].from, ps[i].to)
  /\ \A i \in 1 .. Len(ps) : Sendable(lines, ps[i])

\* The place of the last character that is in a piece.
LastPlace == IF col > 0 THEN <<at, col>> ELSE <<at - 1, converted[at - 1].len>>

\* The splitter is at a character of a line, or in front of one; it knows of a fence
\* exactly where one is open.
Place ==
  /\ at \in 1 .. Len(converted) + 1
  /\ begun => at <= Len(converted) /\ col <= converted[at].len
  /\ ~begun => col = 0
  /\ FitsSingleMessage => at = 1 /\ ~begun
  /\ fence > 0 <=> Inside(at)
  /\ fence > 0 => \E i \in 1 .. Len(converted) : converted[i].fence /\ fence = converted[i].len - 1
  /\ at = 1 /\ ~begun => piece = Empty /\ blocks = 0 /\ pieces = <<>>

\* A piece that has no character yet is one that a line begins.
Fresh == piece.from = <<0, 0>>
FreshPiece == col = 0 /\ piece = Opening /\ (at = 1 \/ begun) /\ Continues(converted, pieces, <<at, 1>>)

\* Any other reaches from where the last piece ends to the last character, and has as
\* many lines as are counted.
GrownPiece ==
  /\ piece.size > 0 /\ piece.to = LastPlace /\ (col = 0 => at > 1)
  /\ piece.from[1] \in 1 .. piece.to[1] /\ at - piece.from[1] <= blocks
  /\ piece.opened > 0 <=> Inside(piece.from[1])
  /\ Continues(converted, pieces, piece.from)

\* Where the lines of fences are short enough, there is room for the one that is begun.
Growing ==
  /\ blocks <= Blocks /\ (begun => blocks < Blocks)
  /\ piece.mended = FALSE /\ piece.size <= Safe
  /\ begun /\ converted[at].fence => piece.size + (converted[at].len - col) + Repair <= Safe
  /\ Fresh => FreshPiece
  /\ ~Fresh => GrownPiece
  /\ Chain(converted, pieces)

\* Lines that were converted.
LEMMA LinesType ==
  ASSUME TextTypeOK, LinesHaveText
  PROVE  /\ converted \in Seq(OutLine) /\ Len(converted) \in Nat /\ Len(converted) >= 1
         /\ DOMAIN converted = 1 .. Len(converted)
         /\ \A i \in 1 .. Len(converted) :
              /\ converted[i].len \in Nat /\ converted[i].len >= 1 /\ converted[i].fence \in BOOLEAN
              /\ converted[i].fence => converted[i].len >= 3
              /\ Inside(i + 1) <=> IF converted[i].fence THEN ~Inside(i) ELSE Inside(i)
         /\ ~Inside(1)
<1>1. converted \in Seq(OutLine)
  BY DEF TextTypeOK, OutLine
<1>2. Len(converted) \in Nat /\ DOMAIN converted = 1 .. Len(converted) /\ converted # <<>>
  BY <1>1 DEF LinesHaveText
<1>3. Len(converted) >= 1
  BY <1>1, <1>2
<1>4. ASSUME NEW i \in 1 .. Len(converted)
      PROVE  /\ converted[i].len \in Nat /\ converted[i].len >= 1 /\ converted[i].fence \in BOOLEAN
             /\ converted[i].fence => converted[i].len >= 3
             /\ Inside(i + 1) <=> IF converted[i].fence THEN ~Inside(i) ELSE Inside(i)
  <2>1. converted[i] \in OutLine
    BY <1>1
  <2>2. converted[i].len >= 1 /\ (converted[i].fence => converted[i].len >= 3)
    BY <1>2 DEF LinesHaveText
  <2>3. converted[i].len \in Nat /\ converted[i].fence \in BOOLEAN
    BY <2>1 DEF OutLine
  <2>4. Within(converted)[i + 1] =
          IF converted[i].fence THEN 1 - Within(converted)[i] ELSE Within(converted)[i]
    BY <1>1, WithinUnfolds
  <2>5. Within(converted)[i] \in {0, 1}
    <3>1. i \in 1 .. Len(converted) + 1
      BY <1>2
    <3> QED BY <1>1, <3>1, WithinIsOneOrNone
  <2>6. Inside(i + 1) <=> IF converted[i].fence THEN ~Inside(i) ELSE Inside(i)
    BY <2>3, <2>4, <2>5, OpenIsWithin DEF Inside
  <2> QED BY <2>2, <2>3, <2>6
<1>5. ~Inside(1)
  BY <1>1, WithinUnfolds, OpenIsWithin DEF Inside
<1> QED BY <1>1, <1>2, <1>3, <1>4, <1>5

\* A piece is its fields.
LEMMA PieceIs ==
  ASSUME NEW p \in Piece
  PROVE  /\ p.size \in Nat /\ p.opened \in Nat /\ p.from \in Nat \X Nat /\ p.to \in Nat \X Nat
         /\ p.mended \in BOOLEAN
         /\ p = [size |-> p.size, opened |-> p.opened, from |-> p.from, to |-> p.to, mended |-> p.mended]
BY DEF Piece

\* A piece of which one field is another.
LEMMA PieceExcept ==
  ASSUME NEW p \in Piece, NEW n, NEW place
  PROVE  /\ [p EXCEPT !.size = n] =
              [size |-> n, opened |-> p.opened, from |-> p.from, to |-> p.to, mended |-> p.mended]
         /\ [p EXCEPT !.opened = n] =
              [size |-> p.size, opened |-> n, from |-> p.from, to |-> p.to, mended |-> p.mended]
         /\ [p EXCEPT !.to = place] =
              [size |-> p.size, opened |-> p.opened, from |-> p.from, to |-> place, mended |-> p.mended]
         /\ [p EXCEPT !.from = place] =
              [size |-> p.size, opened |-> p.opened, from |-> place, to |-> p.to, mended |-> p.mended]
BY DEF Piece

\* The piece that begins with an open fence, the one that closes it, and one with one more
\* character.
LEMMA OpeningIs ==
  ASSUME fence \in Nat
  PROVE  /\ Opening \in Piece /\ Opening.opened = fence /\ Opening.mended = FALSE
         /\ Opening.from = <<0, 0>> /\ Opening.size = IF fence > 0 THEN fence + 1 ELSE 0
<1> DEFINE size == IF fence > 0 THEN fence + 1 ELSE 0
<1>1. size \in Nat
  OBVIOUS
<1> HIDE DEF size
<1>2. Opening = [size |-> size, opened |-> fence, from |-> <<0, 0>>, to |-> <<0, 0>>, mended |-> FALSE]
  <2>1. Opening = [[Empty EXCEPT !.size = size] EXCEPT !.opened = fence]
    BY Zenon DEF Opening, size
  <2> DEFINE sized == [size |-> size, opened |-> 0, from |-> <<0, 0>>, to |-> <<0, 0>>, mended |-> FALSE]
  <2>2. Empty \in Piece /\ sized \in Piece
    BY <1>1 DEF Empty, Piece
  <2>3. [Empty EXCEPT !.size = size] = sized
    BY <2>2, PieceExcept DEF Empty
  <2>4. [sized EXCEPT !.opened = fence] =
          [size |-> size, opened |-> fence, from |-> <<0, 0>>, to |-> <<0, 0>>, mended |-> FALSE]
    BY <2>2, PieceExcept
  <2> HIDE DEF sized
  <2> QED BY <2>1, <2>3, <2>4
<1>3. Opening \in Piece
  <2>1. <<0, 0>> \in Nat \X Nat
    OBVIOUS
  <2> QED BY <1>1, <1>2, <2>1 DEF Piece
<1> QED BY <1>2, <1>3 DEF size

LEMMA MendedIs ==
  ASSUME fence \in Nat, piece \in Piece
  PROVE  /\ Mended \in Piece /\ Mended.opened = piece.opened /\ Mended.size = piece.size + Repair
         /\ Mended.from = piece.from /\ Mended.to = piece.to
         /\ Mended.mended <=> IF fence > 0 THEN TRUE ELSE piece.mended
<1>1. CASE fence > 0
  <2>1. Mended = [size |-> piece.size + 4, opened |-> piece.opened, from |-> piece.from,
                  to |-> piece.to, mended |-> TRUE]
    BY <1>1, PieceIs DEF Mended, Piece
  <2>2. piece.size + 4 \in Nat
    BY PieceIs
  <2>3. Mended \in Piece
    BY <2>1, <2>2, PieceIs DEF Piece
  <2> QED BY <1>1, <2>1, <2>3 DEF Repair
<1>2. CASE ~(fence > 0)
  <2>1. piece.size = piece.size + Repair
    BY <1>2, PieceIs DEF Repair
  <2> QED BY <1>2, <2>1 DEF Mended
<1> QED BY <1>1, <1>2

LEMMA WithIs ==
  ASSUME NEW p \in Piece, NEW place \in Nat \X Nat
  PROVE  /\ With(p, place) \in Piece /\ With(p, place).opened = p.opened
         /\ With(p, place).size = p.size + 1 /\ With(p, place).to = place
         /\ With(p, place).mended = p.mended
         /\ With(p, place).from = IF p.from = <<0, 0>> THEN place ELSE p.from
<1> DEFINE from == IF p.from = <<0, 0>> THEN place ELSE p.from
           size == p.size + 1
<1>1. from \in Nat \X Nat /\ size \in Nat
  BY PieceIs
<1>2. With(p, place) = [size |-> size, opened |-> p.opened, from |-> from, to |-> place, mended |-> p.mended]
  <2> DEFINE longer == [size |-> size, opened |-> p.opened, from |-> p.from, to |-> p.to,
                        mended |-> p.mended]
             ended == [size |-> size, opened |-> p.opened, from |-> p.from, to |-> place,
                       mended |-> p.mended]
  <2>1. longer \in Piece /\ ended \in Piece
    BY <1>1, PieceIs DEF Piece
  <2>2. [p EXCEPT !.size = size] = longer
    BY PieceExcept
  <2>3. [longer EXCEPT !.to = place] = ended
    BY <2>1, PieceExcept
  <2>4. [ended EXCEPT !.from = from] =
          [size |-> size, opened |-> p.opened, from |-> from, to |-> place, mended |-> p.mended]
    BY <2>1, PieceExcept
  <2>5. ended.from = p.from
    OBVIOUS
  <2>6. With(p, place) = [ended EXCEPT !.from = IF @ = <<0, 0>> THEN place ELSE @]
    BY <2>2, <2>3, Zenon DEF With
  <2> HIDE DEF longer, ended
  <2> QED BY <2>4, <2>5, <2>6
<1> HIDE DEF from, size
<1>3. With(p, place) \in Piece
  BY <1>1, <1>2, PieceIs DEF Piece
<1>4. /\ With(p, place).opened = p.opened /\ With(p, place).size = size
      /\ With(p, place).to = place /\ With(p, place).mended = p.mended
      /\ With(p, place).from = from
  BY <1>2
<1> QED BY <1>3, <1>4 DEF from, size

\* A piece is added to the pieces that it continues.
LEMMA ChainGrows ==
  ASSUME NEW lines, NEW ps \in Seq(Piece), NEW p \in Piece,
         Chain(lines, ps), Continues(lines, ps, p.from), Sendable(lines, p)
  PROVE  /\ Append(ps, p) \in Seq(Piece) /\ Chain(lines, Append(ps, p))
         /\ Append(ps, p) # <<>> /\ Append(ps, p)[Len(Append(ps, p))] = p
<1> DEFINE all == Append(ps, p)
<1>1. /\ all \in Seq(Piece) /\ Len(all) = Len(ps) + 1 /\ Len(ps) \in Nat
      /\ all[Len(ps) + 1] = p /\ \A i \in 1 .. Len(ps) : all[i] = ps[i]
  OBVIOUS
<1> HIDE DEF all
<1>2. all # <<>> /\ all[Len(all)] = p
  BY <1>1
<1>3. all[1].from = <<1, 1>>
  <2>1. CASE ps = <<>>
    BY <1>1, <2>1 DEF Continues
  <2>2. CASE ps # <<>>
    <3>1. 1 \in 1 .. Len(ps)
      BY <2>2
    <3> QED BY <1>1, <2>2, <3>1 DEF Chain
  <2> QED BY <2>1, <2>2
<1>4. ASSUME NEW i \in 1 .. Len(all) - 1 PROVE Follows(lines, all[i + 1].from, all[i].to)
  <2>1. CASE i = Len(ps)
    <3>1. ps # <<>> /\ all[i] = ps[Len(ps)] /\ all[i + 1] = p
      BY <1>1, <2>1
    <3> QED BY <3>1 DEF Continues
  <2>2. CASE i # Len(ps)
    <3>1. i \in 1 .. Len(ps) - 1 /\ i \in 1 .. Len(ps) /\ i + 1 \in 1 .. Len(ps)
      BY <1>1, <2>2
    <3> QED BY <1>1, <3>1 DEF Chain
  <2> QED BY <2>1, <2>2
<1>5. ASSUME NEW i \in 1 .. Len(all) PROVE Sendable(lines, all[i])
  <2>1. i = Len(ps) + 1 \/ i \in 1 .. Len(ps)
    BY <1>1
  <2> QED BY <1>1, <2>1 DEF Chain
<1>6. Chain(lines, all)
  BY <1>3, <1>4, <1>5 DEF Chain
<1> QED BY <1>1, <1>2, <1>6 DEF all

\* A piece that is handed over at the end of a line, or within one that is no fence,
\* can be sent, and the next character continues it.
LEMMA PieceEnds ==
  ASSUME TextTypeOK, LinesHaveText, Place, Growing, ~Fresh,
         col > 0 => begun /\ col < converted[at].len /\ ~converted[at].fence
  PROVE  /\ Append(pieces, Mended) \in Seq(Piece) /\ Chain(converted, Append(pieces, Mended))
         /\ Append(pieces, Mended) # <<>>
         /\ Append(pieces, Mended)[Len(Append(pieces, Mended))].to = LastPlace
         /\ Continues(converted, Append(pieces, Mended), <<at, col + 1>>)
<1>1. /\ converted \in Seq(OutLine) /\ Len(converted) \in Nat /\ Len(converted) >= 1
      /\ \A i \in 1 .. Len(converted) :
              /\ converted[i].len \in Nat /\ converted[i].len >= 1 /\ converted[i].fence \in BOOLEAN
              /\ Inside(i + 1) <=> IF converted[i].fence THEN ~Inside(i) ELSE Inside(i)
  BY LinesType
<1>2. /\ fence \in Nat /\ piece \in Piece /\ pieces \in Seq(Piece) /\ col \in Nat /\ blocks \in Nat
      /\ at \in 1 .. Len(converted) + 1 /\ (fence > 0 <=> Inside(at)) /\ (begun => at <= Len(converted))
      /\ Safe \in Nat /\ Blocks \in Nat
  BY TextAssumption DEF TextTypeOK, Place
<1>3. /\ Mended \in Piece /\ Mended.opened = piece.opened /\ Mended.size = piece.size + Repair
      /\ Mended.from = piece.from /\ Mended.to = piece.to
      /\ Mended.mended <=> IF fence > 0 THEN TRUE ELSE piece.mended
  BY <1>2, MendedIs
<1>4. /\ piece.to = LastPlace /\ (col = 0 => at > 1)
      /\ piece.from[1] \in 1 .. piece.to[1] /\ at - piece.from[1] <= blocks
      /\ piece.opened > 0 <=> Inside(piece.from[1])
      /\ Continues(converted, pieces, piece.from)
      /\ piece.size <= Safe /\ piece.mended = FALSE /\ blocks <= Blocks /\ (begun => blocks < Blocks)
      /\ Chain(converted, pieces)
  BY DEF Growing, GrownPiece
<1>5. Mended.mended <=> Inside(at)
  BY <1>2, <1>3, <1>4
<1>6. piece.size \in Nat /\ Repair \in {0, 4} /\ piece.from[1] \in Nat
  <2>1. piece.size \in Nat /\ piece.from \in Nat \X Nat
    BY <1>2 DEF Piece
  <2> QED BY <2>1 DEF Repair
<1>7. Mended.size <= Safe + 4
  BY <1>2, <1>3, <1>4, <1>6
<1> DEFINE to == LastPlace[1]
           end == LastPlace[2]
<1>8. /\ to \in 1 .. Len(converted) /\ end \in Nat /\ end <= converted[to].len
      /\ col > 0 => to = at /\ end = col /\ end < converted[to].len
      /\ col = 0 => to = at - 1 /\ end = converted[to].len
  BY <1>1, <1>2, <1>4 DEF LastPlace
<1>9. at - 1 <= to /\ to <= at /\ to - piece.from[1] + 1 <= Blocks
  <2>1. CASE col > 0
    BY <1>2, <1>4, <1>6, <1>8, <2>1
  <2>2. CASE col = 0
    BY <1>2, <1>4, <1>6, <1>8, <2>2
  <2> QED BY <1>2, <2>1, <2>2
<1>10. LinesOf(Mended) <= Blocks + 2
  <2>1. Mended.from[1] = piece.from[1] /\ Mended.to[1] = to
    BY <1>3, <1>4
  <2>2. to \in Nat
    BY <1>1, <1>8
  <2> HIDE DEF to
  <2> DEFINE first == IF Mended.opened > 0 THEN 1 ELSE 0
             last == IF Mended.mended THEN 1 ELSE 0
  <2>3. LinesOf(Mended) = first + (to - piece.from[1] + 1) + last
    BY <2>1 DEF LinesOf
  <2>4. first \in {0, 1} /\ last \in {0, 1}
    OBVIOUS
  <2> HIDE DEF first, last
  <2> QED BY <1>2, <1>6, <1>9, <2>2, <2>3, <2>4
<1>11. /\ end < converted[to].len => to = at /\ ~converted[to].fence
       /\ ~(end < converted[to].len) => to + 1 = at
  BY <1>2, <1>8
<1>12. Sendable(converted, Mended)
  <2>1. Mended.to[1] = to /\ Mended.to[2] = end
    BY <1>3, <1>4
  <2> HIDE DEF to, end
  <2>2. Mended.opened > 0 <=> Within(converted)[Mended.from[1]] = 1
    BY <1>3, <1>4, OpenIsWithin DEF Inside
  <2>3. Mended.mended <=> Within(converted)[at] = 1
    BY <1>5, OpenIsWithin DEF Inside
  <2>4. Mended.from[1] \in 1 .. to /\ to \in 1 .. Len(converted)
    BY <1>3, <1>4, <1>8, <2>1
  <2> QED BY <1>7, <1>10, <1>11, <2>1, <2>2, <2>3, <2>4 DEF Sendable
<1>13. Follows(converted, <<at, col + 1>>, LastPlace)
  BY <1>1, <1>2, <1>8 DEF Follows
<1> DEFINE all == Append(pieces, Mended)
<1>14. all \in Seq(Piece) /\ Chain(converted, all) /\ all # <<>> /\ all[Len(all)] = Mended
  BY <1>2, <1>3, <1>4, <1>12, ChainGrows
<1> HIDE DEF all
<1>15. Continues(converted, all, <<at, col + 1>>)
  BY <1>3, <1>4, <1>13, <1>14 DEF Continues
<1> QED BY <1>3, <1>4, <1>14, <1>15 DEF all

-----------------------------------------------------------------------------
(* RichText: the steps of chunks                                           *)

\* What the room for fences means for a piece that opens one.
LEMMA FencesHaveRoom ==
  ASSUME TextTypeOK, LinesHaveText, Place, ShortFences
  PROVE  /\ Opening.size + Repair < Safe
         /\ at \in 1 .. Len(converted) /\ converted[at].fence =>
              Opening.size + converted[at].len + Repair <= Safe
<1>1. /\ DOMAIN converted = 1 .. Len(converted) /\ Safe \in Nat /\ Safe >= 1 /\ fence \in Nat
      /\ \A i \in 1 .. Len(converted) :
           /\ converted[i].len \in Nat /\ converted[i].fence \in BOOLEAN
           /\ converted[i].fence => converted[i].len >= 3
  BY LinesType, TextAssumption DEF TextTypeOK
<1>2. \A i, j \in 1 .. Len(converted) :
        converted[i].fence /\ converted[j].fence => converted[i].len + converted[j].len + 4 <= Safe
  BY <1>1 DEF ShortFences
<1>3. Opening.size = IF fence > 0 THEN fence + 1 ELSE 0
  BY <1>1, OpeningIs
<1>4. CASE fence > 0
  <2>1. PICK i \in 1 .. Len(converted) : converted[i].fence /\ fence = converted[i].len - 1
    BY <1>4 DEF Place
  <2>2. converted[i].len \in Nat /\ converted[i].len >= 3 /\ Opening.size = converted[i].len /\ Repair = 4
    BY <1>1, <1>3, <1>4, <2>1 DEF Repair
  <2>3. converted[i].len + converted[i].len + 4 <= Safe
    BY <1>2, <2>1
  <2>4. ASSUME at \in 1 .. Len(converted), converted[at].fence
        PROVE  converted[i].len + converted[at].len + 4 <= Safe /\ converted[at].len \in Nat
    BY <1>1, <1>2, <2>1, <2>4
  <2> HIDE DEF Place
  <2> QED BY <1>1, <2>2, <2>3, <2>4
<1>5. CASE ~(fence > 0)
  <2>1. Opening.size = 0 /\ Repair = 0
    BY <1>3, <1>5 DEF Repair
  <2>2. ASSUME at \in 1 .. Len(converted), converted[at].fence
        PROVE  converted[at].len <= Safe /\ converted[at].len \in Nat
    <3>1. converted[at].len + converted[at].len + 4 <= Safe /\ converted[at].len \in Nat
      BY <1>1, <1>2, <2>2
    <3> QED BY <1>1, <3>1
  <2> QED BY <1>1, <2>1, <2>2
<1> QED BY <1>4, <1>5

\* Nothing is split that fits into a message.
LEMMA SplitsWhatIsTooLong ==
  ASSUME TextTypeOK, LinesHaveText, Place, Splitting
  PROVE  ~FitsSingleMessage
<1>1. at \in Nat
  BY DEF TextTypeOK
<1> QED BY <1>1 DEF Splitting, Place, FitsSingleMessage

\* A step of chunks leaves the text alone.
LEMMA SameLines ==
  ASSUME UNCHANGED <<text, converted>>, stage # "converting", stage' # "converting",
         LinesHaveText, CodeIsKept
  PROVE  /\ (FitsSingleMessage' <=> FitsSingleMessage) /\ (ShortFences' <=> ShortFences)
         /\ Open' = Open /\ converted' = converted /\ LinesHaveText' /\ CodeIsKept'
<1>1. /\ Open' = Open /\ OpenFence' = OpenFence /\ (Plain' <=> Plain)
      /\ (FitsSingleMessage' <=> FitsSingleMessage) /\ (ShortFences' <=> ShortFences)
  BY SameText
<1>2. LinesHaveText'
  BY DEF LinesHaveText
<1>3. CodeIsKept'
  BY <1>1 DEF CodeIsKept, Inside
<1> QED BY <1>1, <1>2, <1>3

\* A line begins in a piece that has room for it, or in a new one.
LEMMA StartLineKeeps ==
  ASSUME TextTypeOK, LinesHaveText, CodeIsKept, Place, ShortFences => Growing, StartLine
  PROVE  TextTypeOK' /\ Place' /\ (ShortFences' => Growing')
<1>1. /\ stage = "splitting" /\ ~begun /\ at <= Len(converted) /\ begun' = TRUE
      /\ UNCHANGED <<text, stage, at, fenced, run, converted, col, fence, sent>>
  BY DEF StartLine, Splitting
<1> DEFINE full == piece.size > 0 /\ (piece.size + converted[at].len + Repair > Safe \/ blocks >= Blocks)
<1>2. /\ full => pieces' = Append(pieces, Mended) /\ piece' = Opening /\ blocks' = 0
      /\ ~full => UNCHANGED <<pieces, piece, blocks>>
  BY DEF StartLine
<1> HIDE DEF full
<1>3. /\ (FitsSingleMessage' <=> FitsSingleMessage) /\ (ShortFences' <=> ShortFences)
      /\ Open' = Open
  BY <1>1, SameLines
<1>4. /\ Len(converted) \in Nat /\ Len(converted) >= 1 /\ ~Inside(1)
      /\ \A i \in 1 .. Len(converted) : converted[i].len \in Nat /\ converted[i].len >= 1
  BY LinesType
<1>5. /\ at \in 1 .. Len(converted) /\ col = 0 /\ fence \in Nat /\ blocks \in Nat
      /\ piece \in Piece /\ pieces \in Seq(Piece) /\ Blocks \in Nat \ {0} /\ Safe \in Nat
      /\ fence > 0 <=> Inside(at)
      /\ at = 1 => piece = Empty /\ blocks = 0 /\ pieces = <<>>
  BY <1>1, <1>4, TextAssumption DEF Place, TextTypeOK
<1>6. Opening \in Piece /\ Mended \in Piece /\ Opening.from = <<0, 0>> /\ Opening.mended = FALSE
  BY <1>5, OpeningIs, MendedIs
<1>7. pieces' \in Seq(Piece) /\ piece' \in Piece /\ blocks' \in Nat
  BY <1>2, <1>5, <1>6
<1>8. TextTypeOK'
  BY <1>1, <1>7 DEF TextTypeOK
<1>9. Place'
  <2>1. ~FitsSingleMessage
    BY SplitsWhatIsTooLong DEF StartLine
  <2>2. /\ at' \in 1 .. Len(converted') + 1 /\ at' <= Len(converted') /\ col' <= converted'[at'].len
        /\ begun' /\ ~FitsSingleMessage'
    BY <1>1, <1>3, <1>4, <1>5, <2>1
  <2>3. fence' > 0 <=> Inside(at)'
    BY <1>1, <1>3, <1>5 DEF Inside
  <2>4. fence' > 0 => \E i \in 1 .. Len(converted') : converted'[i].fence /\ fence' = converted'[i].len - 1
    BY <1>1 DEF Place
  <2> QED BY <2>2, <2>3, <2>4 DEF Place, Inside
<1>10. ASSUME ShortFences PROVE Growing'
  <2>1. Growing
    BY <1>10
  <2>2. /\ Opening.size + Repair < Safe
        /\ converted[at].fence => Opening.size + converted[at].len + Repair <= Safe
    BY <1>5, <1>10, FencesHaveRoom
  <2>3. Opening.size \in Nat /\ piece.size \in Nat /\ Repair \in {0, 4} /\ converted[at].len \in Nat
    BY <1>4, <1>5, <1>6, PieceIs DEF Repair
  <2>4. Fresh => at = 1 /\ piece.size = 0
    BY <1>1, <1>5, <2>1 DEF Growing, FreshPiece, Empty
  <2>5. Opening' = Opening /\ Repair' = Repair /\ LastPlace' = LastPlace
    BY <1>1 DEF Opening, Repair, LastPlace, Empty
  <2>6. CASE full
    <3>1. ~Fresh
      BY <2>4, <2>6 DEF full
    <3>2. /\ Chain(converted, Append(pieces, Mended))
          /\ Continues(converted, Append(pieces, Mended), <<at, col + 1>>)
      BY <1>5, <2>1, <3>1, PieceEnds
    <3>3. pieces' = Append(pieces, Mended) /\ piece' = Opening /\ blocks' = 0
      BY <1>2, <2>6
    <3>4. Chain(converted', pieces') /\ Continues(converted', pieces', <<at', 1>>)
      <4>1. col + 1 = 1
        BY <1>5
      <4> QED BY <1>1, <3>2, <3>3, <4>1
    <3>5. /\ blocks' <= Blocks /\ (begun' => blocks' < Blocks)
          /\ piece'.mended = FALSE /\ piece'.size <= Safe
      BY <1>5, <1>6, <2>2, <2>3, <3>3
    <3>6. converted'[at'].fence => piece'.size + (converted'[at'].len - col') + Repair' <= Safe
      BY <1>1, <1>5, <2>2, <2>3, <2>5, <3>3
    <3>7. Fresh' /\ FreshPiece'
      BY <1>1, <1>5, <1>6, <2>5, <3>3, <3>4 DEF Fresh, FreshPiece
    <3> QED BY <3>4, <3>5, <3>6, <3>7 DEF Growing
  <2>7. CASE ~full
    <3>1. UNCHANGED <<pieces, piece, blocks>>
      BY <1>2, <2>7
    <3>2. blocks < Blocks
      <4>1. CASE piece.size > 0
        BY <1>5, <2>7, <4>1 DEF full
      <4>2. CASE ~(piece.size > 0)
        <5>1. Fresh
          BY <2>1, <4>2 DEF Growing, GrownPiece
        <5> QED BY <1>5, <2>4, <5>1
      <4> QED BY <4>1, <4>2
    <3>3. ASSUME converted[at].fence PROVE piece.size + converted[at].len + Repair <= Safe
      <4>1. CASE piece.size > 0
        BY <1>5, <2>3, <2>7, <4>1 DEF full
      <4>2. CASE ~(piece.size > 0)
        <5>1. Fresh
          BY <2>1, <4>2 DEF Growing, GrownPiece
        <5>2. piece.size <= Opening.size
          BY <2>3, <2>4, <5>1
        <5> QED BY <1>5, <2>2, <2>3, <3>3, <5>2
      <4> QED BY <4>1, <4>2
    <3>4. converted'[at'].fence => piece'.size + (converted'[at'].len - col') + Repair' <= Safe
      BY <1>1, <1>5, <2>3, <2>5, <3>1, <3>3
    <3>5. /\ blocks' <= Blocks /\ (begun' => blocks' < Blocks)
          /\ piece'.mended = FALSE /\ piece'.size <= Safe
      BY <1>5, <2>1, <3>1, <3>2 DEF Growing
    <3>6. Fresh' => FreshPiece'
      BY <1>1, <2>1, <2>5, <3>1 DEF Growing, Fresh, FreshPiece
    <3>7. ~Fresh' => GrownPiece'
      BY <1>1, <1>3, <2>1, <2>5, <3>1 DEF Growing, Fresh, GrownPiece, Inside
    <3>8. Chain(converted', pieces')
      BY <1>1, <2>1, <3>1 DEF Growing
    <3> QED BY <3>4, <3>5, <3>6, <3>7, <3>8 DEF Growing
  <2> QED BY <2>6, <2>7
<1> QED BY <1>3, <1>8, <1>9, <1>10

\* A piece grows by a character, or ends in front of it; the line of a fence is never torn.
LEMMA PushCharacterKeeps ==
  ASSUME TextTypeOK, LinesHaveText, CodeIsKept, Place, ShortFences => Growing, PushCharacter
  PROVE  TextTypeOK' /\ Place' /\ (ShortFences' => Growing')
<1>1. /\ stage = "splitting" /\ begun /\ col < converted[at].len /\ col' = col + 1
      /\ UNCHANGED <<text, stage, at, fenced, run, converted, begun, blocks, fence, sent>>
  BY DEF PushCharacter, Splitting
<1> DEFINE full == piece.size + Repair >= Safe
           here == <<at, col + 1>>
<1>2. /\ full => pieces' = Append(pieces, Mended) /\ piece' = With(Opening, here)
      /\ ~full => piece' = With(piece, here) /\ UNCHANGED pieces
  BY DEF PushCharacter
<1> HIDE DEF full
<1>3. /\ (FitsSingleMessage' <=> FitsSingleMessage) /\ (ShortFences' <=> ShortFences)
      /\ Open' = Open
  BY <1>1, SameLines
<1>4. /\ Len(converted) \in Nat /\ Len(converted) >= 1 /\ ~Inside(1)
      /\ \A i \in 1 .. Len(converted) : converted[i].len \in Nat /\ converted[i].len >= 1
  BY LinesType
<1>5. /\ at \in 1 .. Len(converted) /\ col \in Nat /\ fence \in Nat /\ blocks \in Nat
      /\ piece \in Piece /\ pieces \in Seq(Piece) /\ Blocks \in Nat \ {0} /\ Safe \in Nat
      /\ fence > 0 <=> Inside(at)
  BY <1>1, <1>4, TextAssumption DEF Place, TextTypeOK
<1>6. /\ Opening \in Piece /\ Mended \in Piece /\ Opening.from = <<0, 0>> /\ Opening.mended = FALSE
      /\ Opening.opened = fence /\ here \in Nat \X Nat
  <2>1. at \in Nat /\ col + 1 \in Nat
    BY <1>5
  <2>2. here \in Nat \X Nat
    BY <2>1
  <2> HIDE DEF here
  <2> QED BY <1>5, <2>2, OpeningIs, MendedIs
<1>7. /\ With(Opening, here) \in Piece /\ With(Opening, here).size = Opening.size + 1
      /\ With(Opening, here).opened = fence /\ With(Opening, here).to = here
      /\ With(Opening, here).from = here /\ With(Opening, here).mended = FALSE
  BY <1>6, WithIs
<1>8. /\ With(piece, here) \in Piece /\ With(piece, here).size = piece.size + 1
      /\ With(piece, here).opened = piece.opened /\ With(piece, here).to = here
      /\ With(piece, here).from = IF Fresh THEN here ELSE piece.from
      /\ With(piece, here).mended = piece.mended
  BY <1>5, <1>6, WithIs DEF Fresh
<1>9. pieces' \in Seq(Piece) /\ piece' \in Piece
  <2>1. CASE full
    <3>1. pieces' = Append(pieces, Mended) /\ piece' = With(Opening, here)
      BY <1>2, <2>1
    <3> HIDE DEF here
    <3> QED BY <1>5, <1>6, <1>7, <3>1
  <2>2. CASE ~full
    BY <1>2, <1>5, <1>8, <2>2
  <2> QED BY <2>1, <2>2
<1>10. TextTypeOK'
  <2>1. col' \in Nat
    BY <1>1, <1>5
  <2> QED BY <1>1, <1>9, <2>1 DEF TextTypeOK
<1>11. Place'
  <2>1. ~FitsSingleMessage
    BY SplitsWhatIsTooLong DEF PushCharacter
  <2>2. /\ at' \in 1 .. Len(converted') + 1 /\ at' <= Len(converted') /\ col' <= converted'[at'].len
        /\ begun' /\ ~FitsSingleMessage'
    <3>1. converted[at].len \in Nat
      BY <1>4, <1>5
    <3> QED BY <1>1, <1>3, <1>4, <1>5, <2>1, <3>1
  <2>3. fence' > 0 <=> Inside(at)'
    BY <1>1, <1>3, <1>5 DEF Inside
  <2>4. fence' > 0 => \E i \in 1 .. Len(converted') : converted'[i].fence /\ fence' = converted'[i].len - 1
    BY <1>1 DEF Place
  <2> QED BY <2>2, <2>3, <2>4 DEF Place, Inside
<1>12. ASSUME ShortFences PROVE Growing'
  <2>1. Growing
    BY <1>12
  <2>2. Opening.size + Repair < Safe
    BY <1>12, FencesHaveRoom
  <2>3. /\ Opening.size \in Nat /\ piece.size \in Nat /\ Repair \in {0, 4} /\ converted[at].len \in Nat
    BY <1>4, <1>5, <1>6, PieceIs DEF Repair
  <2>4. Repair' = Repair /\ LastPlace' = here /\ col' > 0 /\ here[1] = at
    BY <1>1, <1>5 DEF Repair, LastPlace
  <2>5. /\ blocks' <= Blocks /\ (begun' => blocks' < Blocks)
    BY <1>1, <2>1 DEF Growing
  <2>6. here # <<0, 0>>
    BY <1>5
  <2> HIDE DEF here
  <2>7. CASE full
    <3>1. ~Fresh
      <4>1. Fresh => piece.size = Opening.size
        BY <2>1 DEF Growing, FreshPiece
      <4> QED BY <1>5, <2>2, <2>3, <2>7, <4>1 DEF full
    <3>2. ~converted[at].fence
      <4>1. converted[at].fence => piece.size + (converted[at].len - col) + Repair <= Safe
        BY <1>1, <2>1 DEF Growing
      <4> QED BY <1>1, <1>5, <2>3, <2>7, <4>1 DEF full
    <3>3. Chain(converted, Append(pieces, Mended)) /\ Continues(converted, Append(pieces, Mended), here)
      BY <1>1, <2>1, <3>1, <3>2, PieceEnds DEF here
    <3>4. pieces' = Append(pieces, Mended) /\ piece' = With(Opening, here)
      BY <1>2, <2>7
    <3>5. Chain(converted', pieces') /\ Continues(converted', pieces', here)
      BY <1>1, <3>3, <3>4
    <3>6. piece'.mended = FALSE /\ piece'.size <= Safe /\ piece'.size > 0
      BY <1>5, <1>7, <2>2, <2>3, <3>4
    <3>7. ~converted'[at'].fence
      BY <1>1, <3>2
    <3>8. ~Fresh'
      BY <1>7, <2>6, <3>4 DEF Fresh
    <3>9. GrownPiece'
      <4>1. piece'.from = here /\ piece'.to = here /\ piece'.opened = fence
        BY <1>7, <3>4
      <4>2. at' = at /\ blocks' = blocks /\ at - at <= blocks /\ at \in 1 .. at
        BY <1>1, <1>5
      <4>3. piece'.opened > 0 <=> Inside(piece.from[1])'
        BY <1>3, <1>5, <2>4, <4>1 DEF Inside
      <4> QED BY <2>4, <3>5, <3>6, <4>1, <4>2, <4>3 DEF GrownPiece, Inside
    <3> QED BY <2>5, <3>5, <3>6, <3>7, <3>8, <3>9 DEF Growing
  <2>8. CASE ~full
    <3>1. piece' = With(piece, here) /\ pieces' = pieces
      BY <1>2, <2>8
    <3>2. piece'.mended = FALSE /\ piece'.size <= Safe /\ piece'.size > 0
      <4>1. piece.size < Safe /\ piece.mended = FALSE
        BY <1>5, <2>1, <2>3, <2>8 DEF full, Growing
      <4> QED BY <1>5, <1>8, <2>3, <3>1, <4>1
    <3>3. converted'[at'].fence => piece'.size + (converted'[at'].len - col') + Repair' <= Safe
      <4>1. converted[at].fence => piece.size + (converted[at].len - col) + Repair <= Safe
        BY <1>1, <2>1 DEF Growing
      <4>2. piece'.size + (converted'[at'].len - col') = piece.size + (converted[at].len - col)
        BY <1>1, <1>5, <1>8, <2>3, <3>1
      <4> QED BY <1>1, <2>4, <4>1, <4>2
    <3>4. piece'.from = (IF Fresh THEN here ELSE piece.from) /\ piece'.to = here
          /\ piece'.opened = piece.opened
      BY <1>8, <3>1
    <3>5. ~Fresh'
      BY <2>6, <3>4 DEF Fresh
    <3>6. Chain(converted', pieces')
      BY <1>1, <2>1, <3>1 DEF Growing
    <3>7. GrownPiece'
      <4>1. CASE Fresh
        <5>1. col = 0 /\ piece = Opening /\ Continues(converted, pieces, <<at, 1>>)
          BY <2>1, <4>1 DEF Growing, FreshPiece
        <5>2. here = <<at, 1>> /\ piece'.from = here /\ piece'.opened = fence
          BY <1>6, <3>4, <4>1, <5>1 DEF here
        <5>3. at' = at /\ blocks' = blocks /\ at - at <= blocks /\ at \in 1 .. at
          BY <1>1, <1>5
        <5>4. piece'.opened > 0 <=> Inside(piece.from[1])'
          BY <1>3, <1>5, <2>4, <5>2 DEF Inside
        <5>5. Continues(converted', pieces', piece'.from)
          BY <1>1, <3>1, <5>1, <5>2
        <5> QED BY <2>4, <3>2, <3>4, <5>2, <5>3, <5>4, <5>5 DEF GrownPiece, Inside
      <4>2. CASE ~Fresh
        <5>1. GrownPiece
          BY <2>1, <4>2 DEF Growing
        <5>2. piece'.from = piece.from
          BY <3>4, <4>2
        <5>3. at' = at /\ blocks' = blocks
          BY <1>1
        <5>4. piece.from[1] \in 1 .. at
          <6>1. LastPlace[1] <= at /\ LastPlace[1] \in Int
            BY <1>5 DEF LastPlace
          <6>2. piece.from[1] \in 1 .. LastPlace[1]
            BY <5>1 DEF GrownPiece
          <6> HIDE DEF LastPlace
          <6> QED BY <1>5, <6>1, <6>2
        <5>5. piece'.opened > 0 <=> Inside(piece.from[1])'
          BY <1>3, <3>4, <5>1, <5>2 DEF Inside, GrownPiece
        <5>6. Continues(converted', pieces', piece'.from)
          BY <1>1, <3>1, <5>1, <5>2 DEF GrownPiece
        <5>7. at' - piece'.from[1] <= blocks'
          BY <5>1, <5>2, <5>3 DEF GrownPiece
        <5> QED BY <2>4, <3>2, <3>4, <5>2, <5>4, <5>5, <5>6, <5>7 DEF GrownPiece, Inside
      <4> QED BY <4>1, <4>2
    <3> QED BY <2>5, <3>2, <3>3, <3>5, <3>6, <3>7 DEF Growing
  <2> QED BY <2>7, <2>8
<1> QED BY <1>3, <1>10, <1>11, <1>12

\* A line ends: if it is a fence, another one is open or none.
LEMMA EndLineKeeps ==
  ASSUME TextTypeOK, LinesHaveText, CodeIsKept, Place, ShortFences => Growing, EndLine
  PROVE  TextTypeOK' /\ Place' /\ (ShortFences' => Growing')
<1>1. /\ stage = "splitting" /\ begun /\ col = converted[at].len
      /\ blocks' = blocks + 1 /\ begun' = FALSE /\ col' = 0 /\ at' = at + 1
      /\ UNCHANGED <<text, stage, fenced, run, converted, piece, pieces, sent>>
  BY DEF EndLine, Splitting
<1>2. fence' = IF ~converted[at].fence THEN fence ELSE IF fence > 0 THEN 0 ELSE converted[at].len - 1
  BY DEF EndLine
<1>3. /\ (FitsSingleMessage' <=> FitsSingleMessage) /\ (ShortFences' <=> ShortFences)
      /\ Open' = Open
  BY <1>1, SameLines
<1>4. /\ Len(converted) \in Nat /\ Len(converted) >= 1 /\ ~Inside(1)
      /\ \A i \in 1 .. Len(converted) :
           /\ converted[i].len \in Nat /\ converted[i].len >= 1 /\ converted[i].fence \in BOOLEAN
           /\ converted[i].fence => converted[i].len >= 3
           /\ Inside(i + 1) <=> IF converted[i].fence THEN ~Inside(i) ELSE Inside(i)
  BY LinesType
<1>5. /\ at \in 1 .. Len(converted) /\ col \in Nat /\ fence \in Nat /\ blocks \in Nat
      /\ piece \in Piece /\ pieces \in Seq(Piece) /\ Blocks \in Nat \ {0} /\ Safe \in Nat
      /\ fence > 0 <=> Inside(at)
  BY <1>1, <1>4, TextAssumption DEF Place, TextTypeOK
<1>6. /\ converted[at].len \in Nat /\ converted[at].fence \in BOOLEAN /\ col >= 1
      /\ converted[at].fence => converted[at].len >= 3
      /\ Inside(at + 1) <=> IF converted[at].fence THEN ~Inside(at) ELSE Inside(at)
  BY <1>1, <1>4, <1>5
<1>7. fence' \in Nat /\ (fence' > 0 <=> Inside(at + 1))
  <2>1. CASE converted[at].fence /\ fence > 0
    BY <1>2, <1>5, <1>6, <2>1
  <2>2. CASE converted[at].fence /\ ~(fence > 0)
    BY <1>2, <1>5, <1>6, <2>2
  <2>3. CASE ~converted[at].fence
    BY <1>2, <1>5, <1>6, <2>3
  <2> QED BY <2>1, <2>2, <2>3
<1>8. TextTypeOK'
  <2>1. at' \in Nat /\ blocks' \in Nat
    BY <1>1, <1>5
  <2> QED BY <1>1, <1>7, <2>1 DEF TextTypeOK
<1>9. Place'
  <2>1. ~FitsSingleMessage
    BY SplitsWhatIsTooLong DEF EndLine
  <2>2. at' \in 1 .. Len(converted') + 1 /\ at' # 1 /\ ~FitsSingleMessage'
    BY <1>1, <1>3, <1>4, <1>5, <2>1
  <2>3. fence' > 0 <=> Inside(at)'
    BY <1>1, <1>3, <1>7 DEF Inside
  <2>4. fence' > 0 => \E i \in 1 .. Len(converted') : converted'[i].fence /\ fence' = converted'[i].len - 1
    <3>1. CASE converted[at].fence
      BY <1>1, <1>2, <1>5, <3>1
    <3>2. CASE ~converted[at].fence
      BY <1>1, <1>2, <3>2 DEF Place
    <3> QED BY <3>1, <3>2
  <2> QED BY <1>1, <2>2, <2>3, <2>4 DEF Place, Inside
<1>10. ASSUME ShortFences PROVE Growing'
  <2>1. Growing
    BY <1>10
  <2>2. ~Fresh /\ ~Fresh'
    BY <1>1, <1>5, <1>6, <2>1 DEF Growing, Fresh, FreshPiece
  <2>3. GrownPiece
    BY <2>1, <2>2 DEF Growing
  <2>4. LastPlace = <<at, col>> /\ LastPlace' = <<at, col>>
    BY <1>1, <1>5, <1>6 DEF LastPlace
  <2>5. blocks' <= Blocks /\ piece'.mended = FALSE /\ piece'.size <= Safe /\ Chain(converted', pieces')
    BY <1>1, <1>5, <2>1 DEF Growing
  <2>6. GrownPiece'
    <3>1. piece' = piece /\ piece.size > 0 /\ piece.to = <<at, col>> /\ at' > 1
          /\ piece.from[1] \in 1 .. piece.to[1] /\ Continues(converted', pieces', piece.from)
      BY <1>1, <1>5, <2>3, <2>4 DEF GrownPiece
    <3>2. at' - piece.from[1] <= blocks'
      <4>1. piece.from[1] \in Nat /\ at - piece.from[1] <= blocks
        BY <1>5, <2>3, <3>1 DEF GrownPiece
      <4> QED BY <1>1, <1>5, <4>1
    <3>3. piece'.opened > 0 <=> Inside(piece.from[1])'
      BY <1>3, <2>3, <3>1 DEF Inside, GrownPiece
    <3> QED BY <2>4, <3>1, <3>2, <3>3 DEF GrownPiece, Inside
  <2> QED BY <1>1, <2>2, <2>5, <2>6 DEF Growing
<1> QED BY <1>3, <1>8, <1>9, <1>10

-----------------------------------------------------------------------------
(* RichText: the invariant                                                 *)

\* What has been split is one piece, or pieces that continue one another to the end.
Split ==
  /\ FitsSingleMessage => Len(pieces) = 1
  /\ ShortFences =>
       /\ \A i \in 1 .. Len(pieces) : pieces[i].size <= Safe + 4 /\ LinesOf(pieces[i]) <= Blocks + 2
       /\ Len(pieces) > 1 =>
            /\ Chain(converted, pieces)
            /\ pieces[Len(pieces)].to = <<Len(converted), converted[Len(converted)].len>>

\* The conversion and the splitting each have what their next steps need; what was
\* converted keeps code, and what was split can be sent.
TextInv ==
  /\ TextTypeOK
  /\ stage = "converting" => Conversion
  /\ stage # "converting" => LinesHaveText /\ CodeIsKept
  /\ stage = "splitting" => Place /\ (ShortFences => Growing)
  /\ stage \in {"sending", "done"} => Split
  /\ AnswersAreWhole

\* The last line has no newline: its length is the only thing that changes.
LEMMA ConvertedKeeps ==
  ASSUME TextTypeOK, Conversion, Converted
  PROVE  TextTypeOK' /\ LinesHaveText' /\ CodeIsKept' /\ Place' /\ Growing'
<1> DEFINE last == Len(converted)
<1>1. /\ stage = "converting" /\ at > Len(text) /\ ~run
      /\ converted' = [converted EXCEPT ![last].len = @ - 1]
      /\ stage' = "splitting" /\ at' = 1
      /\ UNCHANGED <<text, fenced, run, sent, begun, col, blocks, fence, piece, pieces>>
  BY DEF Converted, splitter
<1>2. /\ converted \in Seq(OutLine) /\ text \in Seq(Line) /\ Len(text) \in Nat /\ at = Len(text) + 1
      /\ DOMAIN text = 1 .. Len(text)
  <2>1. converted \in Seq(OutLine) /\ text \in Seq(Line)
    BY TextType DEF TextTypeOK, OutLine
  <2> QED BY <1>1, <2>1 DEF Conversion
<1>3. /\ converted # <<>> /\ converted[last].len >= 2 /\ last \in 1 .. Len(converted)
      /\ DOMAIN converted = 1 .. Len(converted) /\ converted[last] \in OutLine
  <2>1. converted # <<>> /\ converted[last].len >= 2
    BY <1>1 DEF Conversion
  <2>2. last \in 1 .. Len(converted)
    BY <1>2, <2>1
  <2> QED BY <1>2, <2>1, <2>2
<1> DEFINE line == [converted[last] EXCEPT !.len = @ - 1]
<1>4. /\ line \in OutLine /\ line.len = converted[last].len - 1 /\ line.fence = converted[last].fence
      /\ line.source = converted[last].source /\ line.asis = converted[last].asis
  BY <1>3 DEF OutLine
<1>5. /\ converted' = [converted EXCEPT ![last] = line]
  BY <1>1, <1>3
<1>6. /\ converted' \in Seq(OutLine) /\ Len(converted') = Len(converted)
      /\ DOMAIN converted' = 1 .. Len(converted)
  <2> HIDE DEF line, last
  <2> QED BY <1>2, <1>3, <1>4, <1>5
<1>7. ASSUME NEW j \in 1 .. Len(converted)
      PROVE  /\ j # last => converted'[j] = converted[j]
             /\ j = last => converted'[j] = line
  BY <1>2, <1>5
<1> HIDE DEF line
<1>8. \A j \in 1 .. Len(converted) :
        /\ converted'[j].fence = converted[j].fence /\ converted'[j].source = converted[j].source
        /\ converted'[j].asis = converted[j].asis
  BY <1>4, <1>7
<1>9. TextTypeOK'
  <2>1. converted' \in Seq([fence : BOOLEAN, len : Nat, source : Nat, asis : BOOLEAN])
    BY <1>6 DEF OutLine
  <2>2. /\ text \in Texts /\ {fenced, run, begun} \subseteq BOOLEAN
        /\ col \in Nat /\ blocks \in Nat /\ fence \in Nat /\ piece \in Piece /\ pieces \in Seq(Piece)
        /\ sent \in [as : {"nothing", "messages", "file"}, count : Nat]
    BY DEF TextTypeOK
  <2> QED BY <1>1, <2>1, <2>2 DEF TextTypeOK
<1>10. LinesHaveText'
  <2>1. \A j \in 1 .. Len(converted) : converted[j].len >= 1 /\ (converted[j].fence => converted[j].len >= 4)
    BY <1>3 DEF Conversion
  <2>2. \A j \in 1 .. Len(converted) : converted[j].len \in Nat
    <3>1. \A j \in 1 .. Len(converted) : converted[j] \in OutLine
      BY <1>2
    <3> QED BY <3>1 DEF OutLine
  <2>3. ASSUME NEW j \in 1 .. Len(converted)
        PROVE  converted'[j].len >= 1 /\ (converted'[j].fence => converted'[j].len >= 3)
    <3>1. CASE j = last
      <4>1. converted'[j].len = converted[j].len - 1 /\ converted[j].len >= 2
            /\ (converted'[j].fence <=> converted[j].fence)
        BY <1>3, <1>4, <1>7, <3>1
      <4>2. converted[j].len \in Nat /\ (converted[j].fence => converted[j].len >= 4)
        BY <2>1, <2>2
      <4> QED BY <4>1, <4>2
    <3>2. CASE j # last
      <4>1. converted'[j] = converted[j]
        BY <1>7, <3>2
      <4>2. converted[j].len \in Nat /\ converted[j].len >= 1 /\ (converted[j].fence => converted[j].len >= 4)
        BY <2>1, <2>2
      <4> QED BY <4>1, <4>2
    <3> QED BY <3>1, <3>2
  <2>4. converted' # <<>>
    BY <1>2, <1>3, <1>6
  <2> QED BY <1>6, <2>3, <2>4 DEF LinesHaveText
<1>11. \A j \in 1 .. Len(converted) + 1 : Open'[j] = Open[j]
  <2>1. \A j \in 1 .. Len(converted) + 1 : Within(converted')[j] = Within(converted)[j]
    BY <1>2, <1>6, <1>8, WithinIsOfFences
  <2>2. Open' = Within(converted')
    BY DEF Open, Within, Toggled
  <2> QED BY <2>1, <2>2, OpenIsWithin
<1>12. CodeIsKept'
  <2>1. OpenFence' = OpenFence /\ (Plain' <=> Plain) /\ text' = text
    BY <1>1 DEF OpenFence, Plain
  <2>2. ASSUME Plain, NEW i \in 1 .. Len(text), IsCode(i)
        PROVE  \E j \in DOMAIN converted' :
                 /\ converted'[j].source = i /\ converted'[j].asis /\ ~converted'[j].fence
                 /\ Open'[j] = 1
    <3>1. KeptUpTo(Len(text))
      <4>1. at - 1 = Len(text)
        BY <1>2
      <4>2. KeptUpTo(at - 1)
        BY <2>2 DEF Conversion
      <4> QED BY <4>1, <4>2
    <3>2. PICK j \in DOMAIN converted : KeptAt(i, j)
      BY <2>2, <3>1 DEF KeptUpTo
    <3>3. j \in 1 .. Len(converted) /\ j \in 1 .. Len(converted) + 1 /\ j \in DOMAIN converted'
      BY <1>2, <1>6, <3>2
    <3>4. converted[j].source = i /\ converted[j].asis /\ ~converted[j].fence /\ Open[j] = 1
      BY <3>2 DEF KeptAt, Inside
    <3> QED BY <1>8, <1>11, <3>3, <3>4
  <2> QED BY <1>2, <2>1, <2>2 DEF CodeIsKept, IsCode, Inside
<1>13. ~(Open'[1] = 1)
  <2>1. Within(converted)[1] = 0
    BY <1>2, WithinUnfolds
  <2>2. 1 \in 1 .. Len(converted) + 1
    BY <1>2, <1>3
  <2> QED BY <1>11, <2>1, <2>2, OpenIsWithin
<1>14. /\ pieces = <<>> /\ piece = Empty /\ begun = FALSE /\ col = 0 /\ blocks = 0 /\ fence = 0
  BY DEF Conversion
<1>15. Place'
  <2>1. at' \in 1 .. Len(converted') + 1
    BY <1>1, <1>2, <1>6
  <2> QED BY <1>1, <1>13, <1>14, <2>1 DEF Place, Inside
<1>16. Growing'
  <2>1. Safe \in Nat /\ Blocks \in Nat
    BY TextAssumption
  <2>2. /\ piece' = Empty /\ pieces' = <<>> /\ begun' = FALSE /\ blocks' = 0 /\ col' = 0 /\ fence' = 0
        /\ at' = 1
    BY <1>1, <1>14
  <2>3. Opening' = Empty
    <3>1. Opening' = [[Empty EXCEPT !.size = 0] EXCEPT !.opened = 0]
      <4>1. (IF fence' > 0 THEN fence' + 1 ELSE 0) = 0
        BY <2>2
      <4> QED BY <2>2, <4>1, Zenon DEF Opening, Empty
    <3>2. Empty \in Piece
      BY DEF Empty, Piece
    <3>3. [Empty EXCEPT !.size = 0] = Empty
      BY <3>2, PieceExcept DEF Empty
    <3>4. [Empty EXCEPT !.opened = 0] = Empty
      BY <3>2, PieceExcept DEF Empty
    <3> QED BY <3>1, <3>3, <3>4
  <2>4. /\ Empty.mended = FALSE /\ Empty.size = 0 /\ Empty.from = <<0, 0>>
    BY DEF Empty
  <2>5. Chain(converted', pieces')
    BY <2>2 DEF Chain
  <2>6. Fresh' /\ FreshPiece'
    BY <2>2, <2>3, <2>4 DEF Fresh, FreshPiece, Continues
  <2> QED BY <2>1, <2>2, <2>4, <2>5, <2>6 DEF Growing
<1> QED BY <1>9, <1>10, <1>12, <1>15, <1>16

\* What fits is one piece.
LEMMA OnePieceSplits ==
  ASSUME TextTypeOK, LinesHaveText, CodeIsKept, Place, OnePiece
  PROVE  TextTypeOK' /\ Split'
<1>1. /\ stage = "splitting" /\ stage' = "sending"
      /\ UNCHANGED <<text, at, fenced, run, converted, begun, col, blocks, fence, piece, sent>>
  BY DEF OnePiece
<1> DEFINE whole == [Empty EXCEPT !.size = Size, !.from = <<1, 1>>,
                                  !.to = <<Len(converted), converted[Len(converted)].len>>]
           end == <<Len(converted), converted[Len(converted)].len>>
<1>2. pieces' = <<whole>>
  BY DEF OnePiece
<1>3. /\ converted \in Seq(OutLine) /\ Len(converted) \in Nat /\ Len(converted) >= 1
      /\ \A i \in 1 .. Len(converted) : converted[i].len \in Nat
  BY LinesType
<1>4. end \in Nat \X Nat /\ end[1] = Len(converted)
  <2>1. Len(converted) \in 1 .. Len(converted)
    BY <1>3
  <2>2. converted[Len(converted)].len \in Nat
    BY <1>3, <2>1
  <2> QED BY <1>3, <2>2
<1>5. Size \in Nat /\ Size <= Safe /\ Len(converted) <= Blocks /\ Safe \in Nat /\ Blocks \in Nat
  BY <1>1, <1>3, SizeIsNat, TextAssumption DEF OnePiece, Splitting
<1>6. whole = [size |-> Size, opened |-> 0, from |-> <<1, 1>>, to |-> end, mended |-> FALSE]
  <2> DEFINE sized == [size |-> Size, opened |-> 0, from |-> <<0, 0>>, to |-> <<0, 0>>, mended |-> FALSE]
             begins == [size |-> Size, opened |-> 0, from |-> <<1, 1>>, to |-> <<0, 0>>, mended |-> FALSE]
  <2>1. Empty \in Piece /\ sized \in Piece /\ begins \in Piece
    BY <1>5 DEF Empty, Piece
  <2>2. [Empty EXCEPT !.size = Size] = sized
    BY <2>1, PieceExcept DEF Empty
  <2>3. [sized EXCEPT !.from = <<1, 1>>] = begins
    BY <2>1, PieceExcept
  <2>4. [begins EXCEPT !.to = end] =
          [size |-> Size, opened |-> 0, from |-> <<1, 1>>, to |-> end, mended |-> FALSE]
    <3> HIDE DEF end
    <3> QED BY <2>1, PieceExcept
  <2> HIDE DEF sized, begins
  <2> QED BY <2>2, <2>3, <2>4, Zenon
<1> HIDE DEF whole, end
<1>7. whole \in Piece
  BY <1>4, <1>5, <1>6 DEF Piece
<1>8. pieces' \in Seq(Piece) /\ Len(pieces') = 1 /\ pieces'[1] = whole
  BY <1>2, <1>7
<1>9. TextTypeOK'
  BY <1>1, <1>8 DEF TextTypeOK
<1>10. whole.size <= Safe + 4 /\ LinesOf(whole) <= Blocks + 2
  <2>1. LinesOf(whole) = 0 + (Len(converted) - 1 + 1) + 0
    BY <1>3, <1>4, <1>6 DEF LinesOf
  <2> QED BY <1>3, <1>5, <1>6, <2>1
<1>11. \A i \in 1 .. Len(pieces') : pieces'[i].size <= Safe + 4 /\ LinesOf(pieces'[i]) <= Blocks + 2
  BY <1>8, <1>10
<1> QED BY <1>8, <1>9, <1>11 DEF Split, LinesOf

\* What does not ends with what is left.
LEMMA LastPieceSplits ==
  ASSUME TextTypeOK, LinesHaveText, CodeIsKept, Place, ShortFences => Growing, LastPiece
  PROVE  TextTypeOK' /\ Split'
<1>1. /\ stage = "splitting" /\ stage' = "sending" /\ ~begun /\ at > Len(converted)
      /\ pieces' = IF piece.size > 0 THEN Append(pieces, Mended) ELSE pieces
      /\ UNCHANGED <<text, at, fenced, run, converted, begun, col, blocks, fence, piece, sent>>
  BY DEF LastPiece, Splitting
<1>2. ~FitsSingleMessage' /\ (ShortFences' <=> ShortFences)
  <2>1. ~FitsSingleMessage
    BY SplitsWhatIsTooLong DEF LastPiece
  <2> QED BY <1>1, <2>1, SameLines
<1>3. /\ converted \in Seq(OutLine) /\ Len(converted) \in Nat /\ Len(converted) >= 1
  BY LinesType
<1>4. at = Len(converted) + 1 /\ col = 0 /\ fence \in Nat /\ piece \in Piece /\ pieces \in Seq(Piece)
  BY <1>1, <1>3 DEF Place, TextTypeOK
<1>5. TextTypeOK'
  <2>1. pieces' \in Seq(Piece)
    BY <1>1, <1>4, MendedIs
  <2> QED BY <1>1, <2>1 DEF TextTypeOK
<1>6. ASSUME ShortFences
      PROVE  /\ Chain(converted, pieces') /\ pieces' \in Seq(Piece)
             /\ pieces'[Len(pieces')].to = <<Len(converted), converted[Len(converted)].len>>
  <2>1. Growing
    BY <1>6
  <2>2. ~Fresh
    BY <1>1, <1>3, <1>4, <2>1 DEF Growing, FreshPiece
  <2>3. piece.size > 0
    BY <2>1, <2>2 DEF Growing, GrownPiece
  <2>4. LastPlace = <<Len(converted), converted[Len(converted)].len>>
    <3>1. at - 1 = Len(converted) /\ ~(col > 0)
      BY <1>3, <1>4
    <3> QED BY <3>1 DEF LastPlace
  <2>5. pieces' = Append(pieces, Mended)
    BY <1>1, <2>3
  <2>6. col > 0 => begun /\ col < converted[at].len /\ ~converted[at].fence
    BY <1>4
  <2>7. /\ Append(pieces, Mended) \in Seq(Piece) /\ Chain(converted, Append(pieces, Mended))
        /\ Append(pieces, Mended)[Len(Append(pieces, Mended))].to = LastPlace
    BY <2>1, <2>2, <2>6, PieceEnds
  <2> QED BY <2>4, <2>5, <2>7
<1>7. ASSUME ShortFences
      PROVE  \A i \in 1 .. Len(pieces') : pieces'[i].size <= Safe + 4 /\ LinesOf(pieces'[i]) <= Blocks + 2
  BY <1>6, <1>7 DEF Chain, Sendable
<1> QED BY <1>1, <1>2, <1>5, <1>6, <1>7 DEF Split, LinesOf

\* What is said of pieces that were split does not change when they are sent.
LEMMA SplitStays ==
  ASSUME TextTypeOK, LinesHaveText, CodeIsKept, Split,
         stage # "converting", stage' # "converting", stage' \in {"sending", "done"},
         UNCHANGED <<text, at, fenced, run, converted, splitter>>,
         sent' \in [as : {"nothing", "messages", "file"}, count : Nat]
  PROVE  TextTypeOK' /\ LinesHaveText' /\ CodeIsKept' /\ Split'
<1>1. UNCHANGED <<text, at, fenced, run, converted, begun, col, blocks, fence, piece, pieces>>
  BY DEF splitter
<1>2. /\ (FitsSingleMessage' <=> FitsSingleMessage) /\ (ShortFences' <=> ShortFences)
      /\ LinesHaveText' /\ CodeIsKept'
  BY <1>1, SameLines
<1>3. Split'
  BY <1>1, <1>2 DEF Split, LinesOf
<1>4. TextTypeOK'
  BY <1>1 DEF TextTypeOK
<1> QED BY <1>2, <1>3, <1>4

\* At first nothing is converted.
LEMMA TextInvInit == TextInit => TextInv
<1> SUFFICES ASSUME TextInit PROVE TextInv
  OBVIOUS
<1>1. /\ text \in Texts /\ stage = "converting" /\ at = 1
      /\ fenced = FALSE /\ run = FALSE /\ converted = <<>>
      /\ begun = FALSE /\ col = 0 /\ blocks = 0 /\ fence = 0 /\ piece = Empty /\ pieces = <<>>
      /\ sent = [as |-> "nothing", count |-> 0]
  BY DEF TextInit
<1>2. text \in Seq(Line) /\ text # <<>> /\ Len(text) \in Nat /\ Len(text) >= 1
  <2>1. text \in Seq(Line) /\ text # <<>>
    BY <1>1, TextType
  <2> QED BY <2>1
<1>3. TextTypeOK
  <2>1. Empty \in Piece
    BY DEF Empty, Piece
  <2>2. converted \in Seq([fence : BOOLEAN, len : Nat, source : Nat, asis : BOOLEAN])
        /\ pieces \in Seq(Piece)
    BY <1>1
  <2>3. sent \in [as : {"nothing", "messages", "file"}, count : Nat]
    BY <1>1
  <2> QED BY <1>1, <2>1, <2>2, <2>3 DEF TextTypeOK
<1>4. Conversion
  <2>1. ~Inside(Len(converted) + 1)
    <3>1. Within(<<>>)[1] = 0
      <4>1. <<>> \in Seq(OutLine)
        OBVIOUS
      <4> QED BY <4>1, WithinUnfolds
    <3>2. Len(converted) + 1 = 1
      BY <1>1
    <3> QED BY <1>1, <3>1, <3>2, OpenIsWithin DEF Inside
  <2>2. OpenFence[1] = "none"
    BY <1>2, OpenFenceUnfolds
  <2>3. KeptUpTo(at - 1)
    BY <1>1 DEF KeptUpTo
  <2> QED BY <1>1, <1>2, <2>1, <2>2, <2>3 DEF Conversion
<1> QED BY <1>1, <1>3, <1>4 DEF TextInv, AnswersAreWhole

\* The steps of to_telegram_markdown, the ones of chunks, and the ones that send.
LEMMA TextInvStep == TextInv /\ [TextNext]_textVars => TextInv'
<1> SUFFICES ASSUME TextInv, [TextNext]_textVars PROVE TextInv'
  OBVIOUS
<1>1. TextTypeOK /\ AnswersAreWhole
  BY DEF TextInv
<1>2. ASSUME \/ FenceLine \/ CodeLine \/ Heading \/ PlainLine
             \/ IndentedRunStarts \/ IndentedLine \/ IndentedRunEnds
      PROVE  TextInv'
  <2>1. stage = "converting" /\ stage' = "converting"
    BY <1>2 DEF FenceLine, CodeLine, Heading, PlainLine, IndentedRunStarts, IndentedLine,
                IndentedRunEnds, Converting
  <2>2. Conversion
    BY <2>1 DEF TextInv
  <2>3. TextTypeOK' /\ Conversion'
    BY <1>1, <1>2, <2>2, ConversionKeeps
  <2> QED BY <2>1, <2>3 DEF TextInv, AnswersAreWhole
<1>3. CASE Converted
  <2>1. stage = "converting" /\ stage' = "splitting"
    BY <1>3 DEF Converted
  <2>2. Conversion
    BY <2>1 DEF TextInv
  <2>3. TextTypeOK' /\ LinesHaveText' /\ CodeIsKept' /\ Place' /\ Growing'
    BY <1>1, <1>3, <2>2, ConvertedKeeps
  <2> QED BY <2>1, <2>3 DEF TextInv, AnswersAreWhole
<1>4. ASSUME StartLine \/ PushCharacter \/ EndLine PROVE TextInv'
  <2>1. stage = "splitting" /\ stage' = "splitting" /\ UNCHANGED <<text, converted>>
    BY <1>4 DEF StartLine, PushCharacter, EndLine, Splitting
  <2>2. LinesHaveText /\ CodeIsKept /\ Place /\ (ShortFences => Growing)
    BY <2>1 DEF TextInv
  <2>3. TextTypeOK' /\ Place' /\ (ShortFences' => Growing')
    BY <1>1, <1>4, <2>2, StartLineKeeps, PushCharacterKeeps, EndLineKeeps
  <2>4. LinesHaveText' /\ CodeIsKept'
    BY <2>1, <2>2, SameLines
  <2> QED BY <2>1, <2>3, <2>4 DEF TextInv, AnswersAreWhole
<1>5. ASSUME OnePiece \/ LastPiece PROVE TextInv'
  <2>1. stage = "splitting" /\ stage' = "sending" /\ UNCHANGED <<text, converted>>
    BY <1>5 DEF OnePiece, LastPiece, Splitting
  <2>2. LinesHaveText /\ CodeIsKept /\ Place /\ (ShortFences => Growing)
    BY <2>1 DEF TextInv
  <2>3. TextTypeOK' /\ Split'
    BY <1>1, <1>5, <2>2, OnePieceSplits, LastPieceSplits
  <2>4. LinesHaveText' /\ CodeIsKept'
    BY <2>1, <2>2, SameLines
  <2> QED BY <2>1, <2>3, <2>4 DEF TextInv, AnswersAreWhole
<1>6. ASSUME NEW mode \in {"chat", "guest"}, SendAnswer(mode) PROVE TextInv'
  <2>1. /\ stage = "sending" /\ stage' = "done"
        /\ sent' = IF FitsSingleMessage THEN Messages(mode) ELSE [as |-> "file", count |-> 1]
        /\ UNCHANGED <<text, at, fenced, run, converted, splitter>>
    BY <1>6 DEF SendAnswer
  <2>2. LinesHaveText /\ CodeIsKept /\ Split
    BY <2>1 DEF TextInv
  <2>3. Len(pieces) \in Nat
    BY <1>1 DEF TextTypeOK
  <2>4. /\ Messages(mode) \in [as : {"nothing", "messages", "file"}, count : Nat]
        /\ Messages(mode).count = IF mode = "guest" THEN 1 ELSE Len(pieces)
    BY <2>3 DEF Messages
  <2>5. sent' \in [as : {"nothing", "messages", "file"}, count : Nat]
    BY <2>1, <2>4
  <2>6. TextTypeOK' /\ LinesHaveText' /\ CodeIsKept' /\ Split'
    BY <1>1, <2>1, <2>2, <2>5, SplitStays
  <2>7. sent'.as = "file" \/ sent'.count = Len(pieces')
    <3>1. pieces' = pieces
      BY <2>1 DEF splitter
    <3>2. CASE FitsSingleMessage
      BY <2>1, <2>2, <2>4, <3>1, <3>2 DEF Split
    <3>3. CASE ~FitsSingleMessage
      BY <2>1, <3>3
    <3> QED BY <3>2, <3>3
  <2> QED BY <2>1, <2>6, <2>7 DEF TextInv, AnswersAreWhole
<1>7. CASE SendPieces
  <2>1. /\ stage = "sending" /\ stage' = "done" /\ sent' = [as |-> "messages", count |-> Len(pieces)]
        /\ UNCHANGED <<text, at, fenced, run, converted, splitter>>
    BY <1>7 DEF SendPieces, Messages
  <2>2. LinesHaveText /\ CodeIsKept /\ Split
    BY <2>1 DEF TextInv
  <2>3. sent' \in [as : {"nothing", "messages", "file"}, count : Nat]
    <3>1. Len(pieces) \in Nat
      BY <1>1 DEF TextTypeOK
    <3> QED BY <2>1, <3>1
  <2>4. TextTypeOK' /\ LinesHaveText' /\ CodeIsKept' /\ Split'
    BY <1>1, <2>1, <2>2, <2>3, SplitStays
  <2>5. sent'.count = Len(pieces')
    BY <2>1 DEF splitter
  <2> QED BY <2>1, <2>4, <2>5 DEF TextInv, AnswersAreWhole
<1>8. CASE UNCHANGED textVars
  <2>1. /\ UNCHANGED <<text, stage, at, fenced, run, converted>>
        /\ UNCHANGED <<begun, col, blocks, fence, piece, pieces, sent>>
        /\ UNCHANGED <<text, at, fenced, run, converted, splitter>>
    BY <1>8 DEF textVars, splitter
  <2>2. TextTypeOK'
    BY <1>1, <2>1 DEF TextTypeOK
  <2>3. /\ Open' = Open /\ OpenFence' = OpenFence /\ (Plain' <=> Plain)
        /\ (FitsSingleMessage' <=> FitsSingleMessage) /\ (ShortFences' <=> ShortFences)
    BY <2>1, SameText
  <2>4. stage = "converting" => Conversion'
    BY <2>1, <2>3 DEF TextInv, Conversion, KeptUpTo, KeptAt, IsCode, Inside
  <2>5. stage # "converting" => LinesHaveText' /\ CodeIsKept'
    BY <2>1, SameLines DEF TextInv
  <2>6. stage = "splitting" => Place' /\ (ShortFences' => Growing')
    <3>1. Opening' = Opening /\ Repair' = Repair /\ LastPlace' = LastPlace
      BY <2>1 DEF Opening, Repair, LastPlace, Empty
    <3>2. ASSUME Place PROVE Place'
      BY <2>1, <2>3, <3>2 DEF Place, Inside
    <3>3. ASSUME Growing PROVE Growing'
      BY <2>1, <2>3, <3>1, <3>3 DEF Growing, Fresh, FreshPiece, GrownPiece, Inside
    <3> QED BY <2>3, <3>2, <3>3 DEF TextInv
  <2>7. stage \in {"sending", "done"} => Split'
    BY <2>1, <2>3 DEF TextInv, Split, LinesOf
  <2>8. AnswersAreWhole'
    BY <1>1, <2>1 DEF AnswersAreWhole
  <2> QED BY <2>1, <2>2, <2>4, <2>5, <2>6, <2>7, <2>8 DEF TextInv
<1> QED BY <1>2, <1>3, <1>4, <1>5, <1>6, <1>7, <1>8 DEF TextNext, Done

LEMMA TextInvAlways == TextSpec => []TextInv
BY TextInvInit, TextInvStep, PTL DEF TextSpec

\* What the pieces are, of what is known of them while they are made and once they are.
\* Where every fence is an ordinary one, a reader finds those open that the program
\* takes for open, and they are of three backticks.
LEMMA ReadAsTaken ==
  ASSUME converted \in Seq(OutLine), OrdinaryFences
  PROVE  \A i \in 1 .. Len(converted) + 1 :
           Read[i] \in {"none", "backticks"} /\ (Read[i] # "none" <=> Within(converted)[i] = 1)
<1> DEFINE kinds == [i \in 1 .. Len(converted) |-> KindIn(converted[i])]
           Agree(i) == /\ Read[i] \in {"none", "backticks"}
                       /\ Read[i] # "none" <=> Within(converted)[i] = 1
           K == {n \in 0 .. Len(converted) : Agree(n + 1)}
<1>1. /\ Len(converted) \in Nat /\ DOMAIN converted = 1 .. Len(converted)
      /\ \A i \in 1 .. Len(converted) : kinds[i] = KindIn(converted[i])
  OBVIOUS
<1>2. Read = Reading(Len(converted), kinds)
  BY DEF Read
<1> HIDE DEF kinds
<1>3. /\ Read[1] = "none"
      /\ \A i \in 1 .. Len(converted) : Read[i + 1] = Behind(Read[i], KindIn(converted[i]))
  BY <1>1, <1>2, ReadingUnfolds
<1>4. /\ Within(converted)[1] = 0
      /\ \A i \in 1 .. Len(converted) :
           Within(converted)[i + 1] =
             IF converted[i].fence THEN 1 - Within(converted)[i] ELSE Within(converted)[i]
      /\ \A i \in 1 .. Len(converted) + 1 : Within(converted)[i] \in {0, 1}
  BY WithinUnfolds, WithinIsOneOrNone
<1>5. 0 \in K
  BY <1>1, <1>3, <1>4
<1>6. ASSUME NEW n \in 0 .. Len(converted) - 1, n \in K PROVE n + 1 \in K
  <2> DEFINE i == n + 1
  <2>1. i \in 1 .. Len(converted) /\ i \in 1 .. Len(converted) + 1 /\ i \in DOMAIN converted
    BY <1>1
  <2>2. Agree(i)
    BY <1>6
  <2>3. converted[i].fence =>
          /\ KindIn(converted[i]) \in {"backticks", "backticks_info"}
          /\ KindIn(converted[i]) = "backticks_info" => Read[i] = "none"
    BY <2>1 DEF OrdinaryFences
  <2>4. /\ Read[i + 1] = Behind(Read[i], KindIn(converted[i]))
        /\ Within(converted)[i + 1] =
             IF converted[i].fence THEN 1 - Within(converted)[i] ELSE Within(converted)[i]
        /\ Within(converted)[i] \in {0, 1}
    BY <1>3, <1>4, <2>1
  <2>5. ~converted[i].fence => KindIn(converted[i]) = "text"
    BY DEF KindIn
  <2> HIDE DEF i
  <2>6. Agree(i + 1)
    <3>1. CASE converted[i].fence
      <4>1. KindIn(converted[i]) \in {"backticks", "backticks_info"}
        BY <2>3, <3>1
      <4>2. CASE Read[i] = "none"
        <5>1. Read[i + 1] = "backticks"
          BY <2>4, <4>1, <4>2 DEF Behind
        <5> QED BY <2>2, <2>4, <3>1, <4>2, <5>1
      <4>3. CASE Read[i] # "none"
        <5>1. Read[i] = "backticks" /\ KindIn(converted[i]) = "backticks"
          BY <2>2, <2>3, <3>1, <4>1, <4>3
        <5>2. Read[i + 1] = "none"
          BY <2>4, <5>1 DEF Behind, Closes
        <5> QED BY <2>2, <2>4, <3>1, <4>3, <5>2
      <4> QED BY <4>2, <4>3
    <3>2. CASE ~converted[i].fence
      <4>1. KindIn(converted[i]) = "text"
        BY <2>5, <3>2
      <4>2. Read[i + 1] = Read[i]
        BY <2>2, <2>4, <4>1 DEF Behind, Closes
      <4> QED BY <2>2, <2>4, <3>2, <4>2
    <3> QED BY <3>1, <3>2
  <2>7. n + 1 \in 0 .. Len(converted)
    BY <1>1
  <2> QED BY <2>6, <2>7 DEF i
<1> HIDE DEF K
<1>7. 0 .. Len(converted) \subseteq K
  BY <1>1, <1>5, <1>6, UpToN
<1>8. ASSUME NEW i \in 1 .. Len(converted) + 1 PROVE Agree(i)
  <2>1. i - 1 \in 0 .. Len(converted) /\ i - 1 + 1 = i
    BY <1>1
  <2> QED BY <1>7, <2>1 DEF K
<1> QED BY <1>8

LEMMA SplitSays == TextInv => PiecesFit /\ PiecesStandAlone
<1> SUFFICES ASSUME TextInv PROVE PiecesFit /\ PiecesStandAlone
  OBVIOUS
<1>1. /\ stage \in {"converting", "splitting", "sending", "done"}
      /\ pieces \in Seq(Piece) /\ DOMAIN pieces = 1 .. Len(pieces) /\ TextTypeOK
  <2>1. stage \in {"converting", "splitting", "sending", "done"} /\ pieces \in Seq(Piece) /\ TextTypeOK
    BY DEF TextInv, TextTypeOK
  <2> QED BY <2>1
<1>2. PiecesFit
  <2>1. CASE stage = "converting"
    BY <1>1, <2>1 DEF TextInv, Conversion, PiecesFit
  <2>2. CASE stage = "splitting"
    BY <1>1, <2>2 DEF TextInv, Growing, Chain, Sendable, PiecesFit
  <2>3. CASE stage \in {"sending", "done"}
    BY <1>1, <2>3 DEF TextInv, Split, PiecesFit
  <2> QED BY <1>1, <2>1, <2>2, <2>3
<1>3. ASSUME ShortFences, OrdinaryFences, stage \in {"sending", "done"}, Len(pieces) > 1
      PROVE  /\ pieces[1].from = <<1, 1>>
             /\ pieces[Len(pieces)].to = <<Len(converted), converted[Len(converted)].len>>
             /\ \A i \in 1 .. Len(pieces) - 1 : InOrder(pieces[i], pieces[i + 1])
             /\ \A i \in DOMAIN pieces : StandsAlone(pieces[i])
  <2>1. /\ Chain(converted, pieces)
        /\ pieces[Len(pieces)].to = <<Len(converted), converted[Len(converted)].len>>
    BY <1>3 DEF TextInv, Split
  <2>2. pieces[1].from = <<1, 1>>
    BY <1>1, <1>3, <2>1 DEF Chain
  <2>3. \A i \in 1 .. Len(pieces) - 1 : InOrder(pieces[i], pieces[i + 1])
    BY <2>1 DEF Chain, Follows, InOrder
  <2>4. ASSUME NEW i \in DOMAIN pieces PROVE StandsAlone(pieces[i])
    <3>1. Sendable(converted, pieces[i])
      BY <1>1, <2>1 DEF Chain
    <3> DEFINE p    == pieces[i]
               from == p.from[1]
               to   == p.to[1]
               torn == p.to[2] < converted[to].len
    <3>2. /\ from \in 1 .. to /\ to \in 1 .. Len(converted)
          /\ p.opened > 0 <=> Within(converted)[from] = 1
          /\ p.mended <=> IF torn THEN Within(converted)[to] = 1 ELSE Within(converted)[to + 1] = 1
          /\ torn => ~converted[to].fence
      BY <3>1 DEF Sendable
    <3>3. /\ Len(converted) \in Nat
          /\ \A j \in 1 .. Len(converted) + 1 :
               Read[j] \in {"none", "backticks"} /\ (Read[j] # "none" <=> Within(converted)[j] = 1)
      <4>1. converted \in Seq(OutLine)
        BY <1>1 DEF TextTypeOK, OutLine
      <4> QED BY <1>3, <4>1, ReadAsTaken
    <3> HIDE DEF from, to, torn
    <3>4. /\ from \in 1 .. Len(converted) + 1 /\ to \in 1 .. Len(converted) + 1
          /\ to + 1 \in 1 .. Len(converted) + 1
      BY <3>2, <3>3
    <3>5. p.opened > 0 <=> Read[from] # "none"
      BY <3>2, <3>3, <3>4
    <3>6. (IF torn THEN Read[to] ELSE Read[to + 1]) = IF p.mended THEN "backticks" ELSE "none"
      BY <3>2, <3>3, <3>4
    <3> QED BY <3>2, <3>5, <3>6 DEF StandsAlone, from, to, torn
  <2> QED BY <2>1, <2>2, <2>3, <2>4
<1> QED BY <1>2, <1>3 DEF PiecesStandAlone

-----------------------------------------------------------------------------
(* RichText: theorems                                                      *)

\* Of a line, a piece and what is sent the fields keep to their types, and the splitter
\* to its counters.
THEOREM TextTypeInvariant == TextSpec => []TextTypeOK
<1>1. TextInv => TextTypeOK
  BY DEF TextInv
<1> QED BY <1>1, TextInvAlways, PTL

\* "Code content is never rewritten" (rich.rs), of whatever length a text is: to_telegram_markdown
\* keeps each line of code as it is, and it stands in a fence of the converted text.
THEOREM CodeStaysCode == TextSpec => []CodeIsKept
<1>1. TextInv => CodeIsKept
  BY DEF TextInv, CodeIsKept
<1> QED BY <1>1, TextInvAlways, PTL

\* The pieces that chunks makes of a text with ordinary fences are the whole text in its
\* order, and each opens and closes the fences in which a reader of Markdown finds it.
THEOREM PiecesReadAlone == TextSpec => []PiecesStandAlone
<1>1. TextInv => PiecesStandAlone
  BY SplitSays
<1> QED BY <1>1, TextInvAlways, PTL

\* No piece that chunks makes is longer than what a message may be.
THEOREM PiecesFitMessages == TextSpec => []PiecesFit
<1>1. TextInv => PiecesFit
  BY SplitSays
<1> QED BY <1>1, TextInvAlways, PTL

\* An answer is one whole message or a file (materialize_oversized_text).
THEOREM AnswersStayWhole == TextSpec => []AnswersAreWhole
<1>1. TextInv => AnswersAreWhole
  BY DEF TextInv
<1> QED BY <1>1, TextInvAlways, PTL
=============================================================================
