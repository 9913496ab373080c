-------------------------- MODULE MediaJobsProofs --------------------------
(***************************************************************************)
(* Proofs about MediaJobs: its types, how long a call polls, when it gives *)
(* up, and that it implements PaidWork, for any calls, schemas, time-outs, *)
(* pauses and latencies.                                                   *)
(***************************************************************************)
EXTENDS MediaJobs, TLAPS

LEMMA TypesHoldAtFirst == Init => TypeOK
<1> SUFFICES ASSUME Init PROVE TypeOK
  OBVIOUS
<1>1. ask \in [Call -> Ask]
  BY JobsAssumption DEF Init
<1> QED BY <1>1 DEF Init, TypeOK, At

\* The parts that are taken are numbers.
LEMMA DownloadsAreNumbers ==
  ASSUME NEW c \in Call, NEW n \in Nat PROVE Downloads(c, n) \subseteq 0 .. n \cup {1}
BY DEF Downloads

LEMMA TakesTypes ==
  ASSUME TypeOK, NEW c \in Call, Takes(c)
  PROVE  /\ left' \in [Call -> Nat] /\ got' \in [Call -> Nat]
         /\ at' \in [Call -> At] /\ result' \in [Call -> {"open", "made", "failed"}]
         /\ cause' \in [Call -> {"none", "refused", "request", "answer", "job", "timeout", "dropped"}]
         /\ \/ at' = [at EXCEPT ![c] = "collecting"] /\ UNCHANGED <<result, cause>>
            \/ at' = [at EXCEPT ![c] = "over"] /\ result' = [result EXCEPT ![c] = "failed"]
               /\ cause' = [cause EXCEPT ![c] = "answer"]
<1>1. CASE Fails(c, "answer") /\ UNCHANGED parts
  BY <1>1 DEF Fails, parts, TypeOK, At
<1>2. ASSUME NEW n \in 1 .. MaxParts, NEW k \in Downloads(c, n),
             left' = [left EXCEPT ![c] = k], got' = [got EXCEPT ![c] = n - k],
             Goes(c, "collecting")
      PROVE  /\ left' \in [Call -> Nat] /\ got' \in [Call -> Nat]
             /\ at' = [at EXCEPT ![c] = "collecting"] /\ UNCHANGED <<result, cause>>
             /\ at' \in [Call -> At]
  <2>1. n \in Nat /\ n >= 1
    BY <1>2, JobsAssumption
  <2>2. k \in 0 .. n
    BY <1>2, <2>1, DownloadsAreNumbers
  <2>3. k \in Nat /\ n - k \in Nat
    BY <2>1, <2>2
  <2> QED BY <1>2, <2>3 DEF Goes, TypeOK, At
<1> QED BY <1>1, <1>2 DEF Takes, TypeOK

-----------------------------------------------------------------------------
(* What every step of a call keeps, besides the types.                     *)

Sound(c) ==
  /\ at[c] \in {"idle", "resolving", "ordering"} =>
       job[c] = "none" /\ spent[c] = 0 /\ seen[c] = 0 /\ pause[c] = 0
  /\ at[c] # "over" => result[c] = "open" /\ cause[c] = "none"
  /\ at[c] \in {"fetching", "collecting"} => job[c] = "completed"

\* Where the clock stands when it is tested, before a look and before a pause.
OnTime(c) ==
  /\ spent[c] <= Timeout + Latency + LongestPause(c)
  /\ pause[c] <= LongestPause(c)
  /\ at[c] = "looking" => spent[c] <= Timeout + IF OnFal(c) THEN 0 ELSE LongestPause(c)
  /\ at[c] = "sleeping" /\ OnFal(c) => spent[c] <= Timeout + Latency /\ seen[c] = spent[c]
  /\ at[c] = "sleeping" /\ ~OnFal(c) => spent[c] <= Timeout
  /\ at[c] = "checking" \/ cause[c] = "timeout" =>
       spent[c] - seen[c] <= IF OnFal(c) THEN pause[c] ELSE 0

Inv == TypeOK /\ \A c \in Call : Sound(c) /\ OnTime(c)

\* The step of a call leaves every other call alone.
Others(c) ==
  \A d \in Call \ {c} :
    /\ at'[d] = at[d] /\ job'[d] = job[d] /\ spent'[d] = spent[d] /\ seen'[d] = seen[d]
    /\ pause'[d] = pause[d] /\ result'[d] = result[d] /\ cause'[d] = cause[d]

LEMMA Numbers == Timeout \in Nat /\ Interval \in Nat /\ Latency \in Nat /\ LongestRetry \in Nat
BY JobsAssumption

LEMMA PausesAreNumbers ==
  ASSUME NEW c \in Call
  PROVE  /\ LongestPause(c) \in Nat /\ AtLeastOne(Interval) \in Nat
         /\ AtLeastOne(Interval) <= LongestPause(c)
         /\ OnFal(c) => \A n \in 0 .. LongestRetry \cup {Interval} :
              AtLeastOne(n) \in Nat /\ AtLeastOne(n) <= LongestPause(c)
<1> DEFINE Longest == IF OnFal(c) /\ LongestRetry > Interval THEN LongestRetry ELSE Interval
<1>1. Interval \in Nat /\ LongestRetry \in Nat /\ Longest \in Nat /\ Interval <= Longest
  BY JobsAssumption
<1>2. LongestPause(c) = AtLeastOne(Longest)
  BY DEF LongestPause
<1>3. ASSUME NEW m \in Nat, NEW n \in Nat, n <= m
      PROVE  AtLeastOne(n) \in Nat /\ AtLeastOne(n) <= AtLeastOne(m)
  BY <1>3 DEF AtLeastOne
<1>4. ASSUME OnFal(c), NEW n \in 0 .. LongestRetry \cup {Interval}
      PROVE  n \in Nat /\ n <= Longest
  BY <1>1, <1>4
<1> HIDE DEF Longest
<1>5. LongestPause(c) \in Nat /\ AtLeastOne(Interval) <= LongestPause(c)
      /\ AtLeastOne(Interval) \in Nat
  BY <1>1, <1>2, <1>3
<1> QED BY <1>1, <1>2, <1>3, <1>4, <1>5

\* One call's step keeps the invariant when it keeps the types and that call sound.
LEMMA KeptByOne ==
  ASSUME Inv, NEW c \in Call, TypeOK', ask' = ask, Others(c), Sound(c)', OnTime(c)'
  PROVE  Inv'
<1>1. ASSUME NEW d \in Call \ {c} PROVE Sound(d)'
  BY <1>1 DEF Inv, Others, Sound
<1>2. ASSUME NEW d \in Call \ {c} PROVE OnTime(d)'
  BY <1>2 DEF Inv, Others, OnTime, OnFal, LongestPause
<1> QED BY <1>1, <1>2 DEF Inv
LEMMA RefusalsAndOrders ==
  ASSUME Inv, NEW c \in Call,
         Begin(c) \/ Resolve(c) \/ ResolveFails(c) \/ OrderQueued(c) \/ OrderAnswered(c)
           \/ OrderAnswerLost(c) \/ OrderFails(c)
  PROVE  Inv'
<1> USE DEF Inv, TypeOK, At, wait, parts
<1>1. CASE Begin(c)
  <2>1. TypeOK' /\ ask' = ask /\ Others(c)
    BY <1>1 DEF Begin, Fails, Goes, Others
  <2>2. Sound(c)'
    BY <1>1 DEF Begin, Fails, Goes, Sound
  <2>3. OnTime(c)'
    BY <1>1, PausesAreNumbers DEF Begin, Fails, Goes, OnTime, Sound, OnFal, LongestPause
  <2> QED BY <2>1, <2>2, <2>3, KeptByOne
<1>2. CASE Resolve(c)
  <2>1. TypeOK' /\ ask' = ask /\ Others(c)
    BY <1>2 DEF Resolve, Fails, Goes, Others
  <2>2. Sound(c)'
    BY <1>2 DEF Resolve, Fails, Goes, Sound
  <2>3. OnTime(c)'
    BY <1>2, PausesAreNumbers DEF Resolve, Fails, Goes, OnTime, Sound, OnFal, LongestPause
  <2> QED BY <2>1, <2>2, <2>3, KeptByOne
<1>3. CASE ResolveFails(c) \/ OrderFails(c)
  <2>1. TypeOK' /\ ask' = ask /\ Others(c)
    BY <1>3 DEF ResolveFails, OrderFails, Fails, Others
  <2>2. Sound(c)'
    BY <1>3 DEF ResolveFails, OrderFails, Fails, Sound
  <2>3. OnTime(c)'
    BY <1>3, PausesAreNumbers
       DEF ResolveFails, OrderFails, Fails, OnTime, Sound, OnFal, LongestPause
  <2> QED BY <2>1, <2>2, <2>3, KeptByOne
<1>4. CASE OrderQueued(c) \/ OrderAnswerLost(c)
  <2>1. TypeOK' /\ ask' = ask /\ Others(c)
    BY <1>4 DEF OrderQueued, OrderAnswerLost, Fails, Goes, Others
  <2>2. Sound(c)'
    BY <1>4 DEF OrderQueued, OrderAnswerLost, Fails, Goes, Sound
  <2>3. OnTime(c)'
    BY <1>4, PausesAreNumbers
       DEF OrderQueued, OrderAnswerLost, Fails, Goes, OnTime, Sound, OnFal, LongestPause
  <2> QED BY <2>1, <2>2, <2>3, KeptByOne
<1>5. CASE OrderAnswered(c)
  <2>0. Takes(c)
    BY <1>5 DEF OrderAnswered
  <2>1. TypeOK' /\ ask' = ask /\ Others(c)
    BY <1>5, <2>0, TakesTypes DEF OrderAnswered, Others
  <2>2. Sound(c)'
    BY <1>5, <2>0, TakesTypes DEF OrderAnswered, Sound
  <2>3. OnTime(c)'
    BY <1>5, <2>0, TakesTypes, PausesAreNumbers
       DEF OrderAnswered, OnTime, Sound, OnFal, LongestPause
  <2> QED BY <2>1, <2>2, <2>3, KeptByOne
<1> QED BY <1>1, <1>2, <1>3, <1>4, <1>5

\* Who makes the work and how long its longest pause is stay as they are.
LEMMA Unasked ==
  ASSUME NEW c \in Call, ask' = ask
  PROVE  (OnFal(c)' <=> OnFal(c)) /\ LongestPause(c)' = LongestPause(c)
BY DEF OnFal, LongestPause

\* The clock is tested with what it shows, and a look or a pause adds no more than
\* its length.
LEMMA Polling ==
  ASSUME Inv, NEW c \in Call,
         Check(c) \/ Sleep(c) \/ LookFails(c) \/ LooksRunning(c) \/ LooksFailed(c)
           \/ LooksCompleted(c)
  PROVE  Inv'
<1> USE DEF Inv, TypeOK, At, wait, parts
<1>0. CASE Check(c)
  <2>1. TypeOK' /\ ask' = ask /\ Others(c)
    BY <1>0, PausesAreNumbers DEF Check, Others, Fails, Goes
  <2>2. Sound(c)'
    BY <1>0 DEF Check, Sound, Fails, Goes
  <2>3. OnTime(c)'
    BY <1>0, PausesAreNumbers, Numbers
       DEF Check, OnTime, Sound, OnFal, LongestPause, Fails, Goes
  <2> QED BY <2>1, <2>2, <2>3, KeptByOne
<1>1. CASE Sleep(c)
  <2>1. TypeOK' /\ ask' = ask /\ Others(c)
    BY <1>1, PausesAreNumbers DEF Sleep, Others, Goes
  <2>2. Sound(c)'
    BY <1>1 DEF Sleep, Sound, Goes
  <2>3. OnTime(c)'
    BY <1>1, PausesAreNumbers, Numbers
       DEF Sleep, OnTime, Sound, OnFal, LongestPause, Goes
  <2> QED BY <2>1, <2>2, <2>3, KeptByOne
<1>2. ASSUME SpendsTime(c)
      PROVE  /\ spent' \in [Call -> Nat]
             /\ \A d \in Call \ {c} : spent'[d] = spent[d]
             /\ spent'[c] >= spent[c] /\ spent'[c] <= spent[c] + Latency
  BY <1>2, Numbers DEF SpendsTime
<1>3. at[c] = "looking" => spent[c] \in Nat /\ spent[c] <= Timeout + LongestPause(c)
  BY PausesAreNumbers, Numbers DEF OnTime
<1>4. CASE LookFails(c)
  <2>0. /\ spent' \in [Call -> Nat] /\ \A d \in Call \ {c} : spent'[d] = spent[d]
        /\ spent'[c] >= spent[c] /\ spent'[c] <= spent[c] + Latency
    BY <1>4, <1>2 DEF LookFails
  <2>1. TypeOK' /\ ask' = ask /\ Others(c)
    BY <1>4, <2>0, PausesAreNumbers DEF LookFails, Others, Fails
  <2>2. Sound(c)'
    BY <1>4, <1>2 DEF LookFails, Sound, Fails
  <2>3. at[c] = "looking" /\ ask' = ask
    BY <1>4 DEF LookFails
  <2>4. spent'[c] <= Timeout + Latency + LongestPause(c)
    BY <2>0, <2>3, <1>3, PausesAreNumbers, Numbers
  <2>5. OnTime(c)'
    BY <1>4, <2>0, <2>3, <2>4, Unasked, PausesAreNumbers, Numbers
       DEF LookFails, OnTime, Sound, Fails
  <2> QED BY <2>1, <2>2, <2>5, KeptByOne
<1>5. CASE LooksRunning(c)
  <2>0. /\ spent' \in [Call -> Nat] /\ \A d \in Call \ {c} : spent'[d] = spent[d]
        /\ spent'[c] >= spent[c] /\ spent'[c] <= spent[c] + Latency
    BY <1>5, <1>2 DEF LooksRunning
  <2>1. /\ pause' \in [Call -> Nat] /\ \A d \in Call \ {c} : pause'[d] = pause[d]
        /\ pause'[c] <= LongestPause(c)
        /\ ~OnFal(c) => pause' = pause
    <3>1. CASE OnFal(c)
      BY <1>5, <3>1, PausesAreNumbers DEF LooksRunning
    <3>2. CASE ~OnFal(c)
      BY <1>5, <3>2 DEF LooksRunning, OnTime
    <3> QED BY <3>1, <3>2
  <2>2. TypeOK' /\ ask' = ask /\ Others(c)
    BY <1>5, <2>0, <2>1 DEF LooksRunning, Others, Goes
  <2>3. Sound(c)'
    BY <1>5, <1>2 DEF LooksRunning, Sound, Goes
  <2>4. at[c] = "looking" /\ ask' = ask
    BY <1>5 DEF LooksRunning
  <2>5. spent'[c] <= Timeout + Latency + LongestPause(c)
    BY <2>0, <2>4, <1>3, PausesAreNumbers, Numbers
  <2>6. OnTime(c)'
    <3>1. /\ at'[c] = IF OnFal(c) THEN "sleeping" ELSE "checking"
          /\ cause'[c] = "none" /\ seen'[c] = spent'[c]
      BY <1>5, <2>0, <2>4 DEF LooksRunning, Sound, Goes
    <3>2. OnFal(c) => spent'[c] <= Timeout + Latency
      BY <2>0, <2>4, Numbers DEF OnTime
    <3>3. pause'[c] \in Nat /\ spent'[c] \in Nat
      BY <2>0, <2>1
    <3>4. spent'[c] - seen'[c] = 0
      BY <3>1, <3>3
    <3> QED BY <2>1, <2>4, <2>5, <3>1, <3>2, <3>3, <3>4, Unasked DEF OnTime
  <2> QED BY <2>2, <2>3, <2>6, KeptByOne
<1>6. CASE LooksFailed(c)
  <2>0. /\ spent' \in [Call -> Nat] /\ \A d \in Call \ {c} : spent'[d] = spent[d]
        /\ spent'[c] >= spent[c] /\ spent'[c] <= spent[c] + Latency
    BY <1>6, <1>2 DEF LooksFailed
  <2>1. TypeOK' /\ ask' = ask /\ Others(c)
    BY <1>6, <2>0, PausesAreNumbers DEF LooksFailed, Others, Fails
  <2>2. Sound(c)'
    BY <1>6, <1>2 DEF LooksFailed, Sound, Fails
  <2>3. at[c] = "looking" /\ ask' = ask
    BY <1>6 DEF LooksFailed
  <2>4. spent'[c] <= Timeout + Latency + LongestPause(c)
    BY <2>0, <2>3, <1>3, PausesAreNumbers, Numbers
  <2>5. OnTime(c)'
    BY <1>6, <2>0, <2>3, <2>4, Unasked, PausesAreNumbers, Numbers
       DEF LooksFailed, OnTime, Sound, Fails
  <2> QED BY <2>1, <2>2, <2>5, KeptByOne
<1>7. CASE LooksCompleted(c)
  <2>0. \/ OnFal(c) /\ Goes(c, "fetching") /\ UNCHANGED parts
        \/ Takes(c)
    BY <1>7 DEF LooksCompleted
  <2>1. /\ spent' \in [Call -> Nat] /\ \A d \in Call \ {c} : spent'[d] = spent[d]
        /\ spent'[c] >= spent[c] /\ spent'[c] <= spent[c] + Latency
    BY <1>7, <1>2 DEF LooksCompleted
  <2>2. /\ left' \in [Call -> Nat] /\ got' \in [Call -> Nat]
        /\ \/ at' = [at EXCEPT ![c] = "fetching"] /\ UNCHANGED <<result, cause>>
           \/ at' = [at EXCEPT ![c] = "collecting"] /\ UNCHANGED <<result, cause>>
           \/ at' = [at EXCEPT ![c] = "over"] /\ result' = [result EXCEPT ![c] = "failed"]
              /\ cause' = [cause EXCEPT ![c] = "answer"]
    BY <2>0, TakesTypes DEF Goes
  <2>3. TypeOK' /\ ask' = ask /\ Others(c)
    BY <1>7, <2>1, <2>2 DEF LooksCompleted, Others
  <2>4. Sound(c)'
    BY <1>7, <2>0, TakesTypes DEF LooksCompleted, Sound, Goes
  <2>5. at[c] = "looking" /\ ask' = ask
    BY <1>7 DEF LooksCompleted
  <2>6. spent'[c] <= Timeout + Latency + LongestPause(c)
    BY <2>1, <2>5, <1>3, PausesAreNumbers, Numbers
  <2>7. OnTime(c)'
    BY <1>7, <2>1, <2>2, <2>5, <2>6, Unasked, PausesAreNumbers, Numbers
       DEF LooksCompleted, OnTime, Sound
  <2> QED BY <2>3, <2>4, <2>7, KeptByOne
<1> QED BY <1>0, <1>1, <1>4, <1>5, <1>6, <1>7

LEMMA Ending ==
  ASSUME Inv, NEW c \in Call,
         Fetch(c) \/ Download(c) \/ DownloadFails(c) \/ Return(c) \/ Dropped(c)
           \/ ProviderFinishes(c)
  PROVE  Inv'
<1> USE DEF Inv, TypeOK, At, wait, parts
<1>1. CASE Fetch(c)
  <2>0. Takes(c) \/ (Fails(c, "request") /\ UNCHANGED parts)
    BY <1>1 DEF Fetch
  <2>1. TypeOK' /\ ask' = ask /\ Others(c)
    BY <1>1, <2>0, TakesTypes DEF Fetch, Others, Fails
  <2>2. Sound(c)'
    BY <1>1, <2>0, TakesTypes DEF Fetch, Sound, Fails
  <2>3. OnTime(c)'
    BY <1>1, <2>0, TakesTypes, PausesAreNumbers
       DEF Fetch, OnTime, Sound, OnFal, LongestPause, Fails
  <2> QED BY <2>1, <2>2, <2>3, KeptByOne
<1>2. CASE Download(c)
  <2>1. TypeOK' /\ ask' = ask /\ Others(c)
    BY <1>2, PausesAreNumbers DEF Download, Others
  <2>2. Sound(c)'
    BY <1>2 DEF Download, Sound
  <2>3. OnTime(c)'
    BY <1>2, PausesAreNumbers, JobsAssumption
       DEF Download, OnTime, Sound, OnFal, LongestPause
  <2> QED BY <2>1, <2>2, <2>3, KeptByOne
<1>3. CASE DownloadFails(c)
  <2>1. TypeOK' /\ ask' = ask /\ Others(c)
    BY <1>3, PausesAreNumbers DEF DownloadFails, Others, Fails
  <2>2. Sound(c)'
    BY <1>3 DEF DownloadFails, Sound, Fails
  <2>3. OnTime(c)'
    BY <1>3, PausesAreNumbers, JobsAssumption
       DEF DownloadFails, OnTime, Sound, OnFal, LongestPause, Fails
  <2> QED BY <2>1, <2>2, <2>3, KeptByOne
<1>4. CASE Return(c)
  <2>1. TypeOK' /\ ask' = ask /\ Others(c)
    BY <1>4, PausesAreNumbers DEF Return, Others, Fails
  <2>2. Sound(c)'
    BY <1>4 DEF Return, Sound, Fails
  <2>3. OnTime(c)'
    BY <1>4, PausesAreNumbers, JobsAssumption
       DEF Return, OnTime, Sound, OnFal, LongestPause, Fails
  <2> QED BY <2>1, <2>2, <2>3, KeptByOne
<1>5. CASE Dropped(c)
  <2>1. TypeOK' /\ ask' = ask /\ Others(c)
    BY <1>5, PausesAreNumbers DEF Dropped, Others, Fails
  <2>2. Sound(c)'
    BY <1>5 DEF Dropped, Sound, Fails
  <2>3. OnTime(c)'
    BY <1>5, PausesAreNumbers, JobsAssumption
       DEF Dropped, OnTime, Sound, OnFal, LongestPause, Fails
  <2> QED BY <2>1, <2>2, <2>3, KeptByOne
<1>6. CASE ProviderFinishes(c)
  <2>1. TypeOK' /\ ask' = ask /\ Others(c)
    BY <1>6, PausesAreNumbers DEF ProviderFinishes, Others
  <2>2. Sound(c)'
    BY <1>6 DEF ProviderFinishes, Sound
  <2>3. OnTime(c)'
    BY <1>6, PausesAreNumbers, JobsAssumption
       DEF ProviderFinishes, OnTime, Sound, OnFal, LongestPause
  <2> QED BY <2>1, <2>2, <2>3, KeptByOne
<1> QED BY <1>1, <1>2, <1>3, <1>4, <1>5, <1>6

LEMMA Initially == Init => Inv
<1> SUFFICES ASSUME Init PROVE Inv
  OBVIOUS
<1>1. \A c \in Call : Sound(c)
  BY DEF Init, Sound
<1>2. \A c \in Call : OnTime(c)
  BY PausesAreNumbers, JobsAssumption DEF Init, OnTime
<1> QED BY <1>1, <1>2, TypesHoldAtFirst DEF Inv

LEMMA Inductive == Inv /\ [Next]_vars => Inv'
<1> SUFFICES ASSUME Inv, [Next]_vars PROVE Inv'
  OBVIOUS
<1>1. CASE UNCHANGED vars
  BY <1>1 DEF vars, wait, parts, Inv, TypeOK, At, Sound, OnTime, OnFal, LongestPause
<1>2. ASSUME NEW c \in Call, CallStep(c) \/ ProviderFinishes(c) \/ Dropped(c) PROVE Inv'
  BY <1>2, RefusalsAndOrders, Polling, Ending DEF CallStep
<1> QED BY <1>1, <1>2 DEF Next

\* The invariant holds: types, what a call has before and after it orders, and where
\* its clock stands at each point of its loop.
THEOREM JobsInvariant == Spec => []Inv
BY Initially, Inductive, PTL DEF Spec

\* Every variable keeps to its type.
THEOREM TypeInvariant == Spec => []TypeOK
<1>1. Inv => TypeOK
  BY DEF Inv
<1> QED BY <1>1, JobsInvariant, PTL

\* No call of a generator polls for longer than the time-out, one request and one
\* pause (FalClient::run, generate_video_with_references).
THEOREM PollingEnds == Spec => []EndsNearTimeout
<1>1. Inv => EndsNearTimeout
  BY DEF Inv, OnTime, EndsNearTimeout
<1> QED BY <1>1, JobsInvariant, PTL

\* A job is given up only after a look at it: just before for a video, a pause
\* before for a job of fal.ai.
THEOREM GivenUpAfterALook == Spec => []LooksBeforeGivingUp
<1>1. Inv => LooksBeforeGivingUp
  BY DEF Inv, OnTime, LooksBeforeGivingUp
<1> QED BY <1>1, JobsInvariant, PTL

-----------------------------------------------------------------------------
(* What an order to fal.ai holds (FalSchema).                              *)

\* The general capabilities are for the configuration: none is derived.
LEMMA DerivedAreSpecial ==
  ASSUME NEW schema
  PROVE  Executable(schema) \cap
           {"image_generation", "video_generation", "speech_generation", "music_generation",
            "audio_generation"} = {}
<1> DEFINE Generals == {"image_generation", "video_generation", "speech_generation",
                        "music_generation", "audio_generation"}
<1>1. CategoryCapabilities(schema.category) \cap Generals = {}
  BY DEF CategoryCapabilities
<1>2. ASSUME NEW capability, capability \notin Generals
      PROVE  AsVector(capability) \notin Generals
  BY <1>2 DEF AsVector
<1> HIDE DEF Generals
<1>3. ModelCapabilities(schema) \cap Generals = {}
  BY <1>1, <1>2 DEF ModelCapabilities
<1>4. Executable(schema) \cap Generals = {}
  BY <1>3 DEF Executable
<1> QED BY <1>4 DEF Generals

\* A field that is required is a field of its own, never one of an object's.
LEMMA FieldsAreTheirOwnParents ==
  ASSUME NEW name \in Field PROVE Parent(name) = name /\ name # NoField
BY DEF Field, Parent, NoField

\* A medium is named by a field of its own.
LEMMA MediaFields ==
  ASSUME NEW schema, NEW r \in Media
  PROVE  FieldsOf(schema)[r] = NoField \/ FieldsOf(schema)[r] \in Field
<1>1. r \in Role
  BY DEF Media, Role
<1>2. FieldsOf(schema)[r] = FindField(Names[r], schema.fields)
  BY <1>1 DEF FieldsOf
<1> DEFINE Here == {i \in DOMAIN Names[r] : Parent(Names[r][i]) \in schema.fields}
           First == CHOOSE i \in Here : \A j \in Here : i <= j
<1>3. DOMAIN Names[r] = 1 .. 2 /\ \A i \in 1 .. 2 : Names[r][i] \in Field
  BY DEF Media, Names, Field
<1>4. CASE Here = {}
  BY <1>2, <1>4 DEF FindField
<1>5. CASE Here # {}
  <2>1. \E i \in Here : \A j \in Here : i <= j
    <3>1. Here \subseteq {1, 2}
      BY <1>3
    <3> QED BY <1>5, <3>1
  <2>2. First \in Here
    BY <2>1
  <2>3. FieldsOf(schema)[r] = Names[r][First]
    BY <1>2, <1>5 DEF FindField
  <2> QED BY <1>3, <2>2, <2>3
<1> QED BY <1>4, <1>5

\* An endpoint that is only known by its schema is usable for what is asked when the
\* capability that is asked for was derived.
LEMMA UsableByDerivation ==
  ASSUME NEW c \in Call, ask[c].model \notin DOMAIN Configured, Usable(c)
  PROVE  Specialized(ask[c].kind, ask[c].refs) \in Executable(Published[ask[c].model])
<1> DEFINE e == ask[c].model
           derived == Executable(Published[e])
           special == Specialized(ask[c].kind, ask[c].refs)
<1>1. Is(e).capabilities = derived
  BY DEF Is, Derived
<1>2. derived \cap {"image_generation", "video_generation", "speech_generation",
                    "music_generation", "audio_generation"} = {}
  BY DerivedAreSpecial
<1>3. ASSUME NEW requested, Supports(e, requested) PROVE requested \in derived
  BY <1>1, <1>2, <1>3 DEF Supports
<1>4. PICK capability \in {special} \cup General(ask[c].kind) : Supports(e, capability)
  BY DEF Usable
<1>5. General(ask[c].kind) \subseteq
        {"image_generation", "video_generation", "speech_generation", "music_generation"}
  BY DEF General
<1>6. capability \in derived
  BY <1>3, <1>4
<1> QED BY <1>2, <1>4, <1>5, <1>6

\* What Derivable is for: an order that is built from a derived mapping has every
\* required input the request says something for, and the media the capability is
\* named for.
LEMMA DerivedOrders ==
  ASSUME TypeOK, NEW c \in Call, ask[c].model \in Endpoint, ask[c].model \notin DOMAIN Configured,
         Derivable(Published[ask[c].model]), Usable(c)
  PROVE  LET field == Is(ask[c].model).field
             needed == Needs(Specialized(ask[c].kind, ask[c].refs))
         IN /\ Lacks(c) \subseteq {field[r] : r \in Role \ (ask[c].refs \cup Says(c))}
            /\ needed \subseteq ask[c].refs => {Parent(field[r]) : r \in needed} \subseteq Filled(c)
<1> DEFINE schema == Published[ask[c].model]
           mapping == Is(ask[c].model)
           field == mapping.field
           special == Specialized(ask[c].kind, ask[c].refs)
           needed == Needs(special)
           said == Said(mapping, ask[c].refs, Says(c))
<1>1. mapping = Derived(schema)
  BY DEF Is
<1>2. field = FieldsOf(schema) /\ mapping.defaults = schema.default \cup Chosen(schema)
  BY <1>1 DEF Derived
<1>3. schema.required \subseteq Field
  BY JobsAssumption DEF Schema
<1>4. ask[c].refs \subseteq Media /\ Says(c) \subseteq Role
  BY DEF TypeOK, Ask, Says
<1>5. Filled(c) = mapping.defaults \cup {Parent(field[r]) : r \in said}
  BY DEF Filled, Input
<1>6. ASSUME NEW r \in ask[c].refs \cup Says(c), r \in Role, field[r] \in Field,
             field[r] \notin mapping.defaults
      PROVE  Parent(field[r]) \in Filled(c)
  <2>1. field[r] # NoField
    BY <1>6, FieldsAreTheirOwnParents
  <2>2. r \in said
    BY <1>4, <1>6, <2>1 DEF Said
  <2> QED BY <1>5, <2>2
<1>7. ASSUME NEW name \in Lacks(c)
      PROVE  name \in {field[r] : r \in Role \ (ask[c].refs \cup Says(c))}
  <2>1. name \in schema.required /\ name \notin Filled(c)
    BY DEF Lacks
  <2>2. name \notin mapping.defaults
    BY <1>5, <2>1
  <2>3. Mapped(schema, name)
    BY <1>2, <2>1, <2>2 DEF Derivable
  <2>4. PICK r \in Role : field[r] = name
    BY <1>2, <2>3 DEF Mapped
  <2>5. name \in Field /\ Parent(name) = name
    BY <1>3, <2>1, FieldsAreTheirOwnParents
  <2>6. r \notin ask[c].refs \cup Says(c)
    BY <1>6, <2>1, <2>2, <2>4, <2>5
  <2> QED BY <2>4, <2>6
<1>8. ASSUME needed \subseteq ask[c].refs, NEW r \in needed
      PROVE  Parent(field[r]) \in Filled(c)
  <2>1. r \in Media /\ r \in Role
    BY <1>8 DEF Needs, Media, Role
  <2>2. special \in Executable(schema)
    BY UsableByDerivation
  <2>3. field[r] # NoField
    BY <1>2, <2>2 DEF Executable
  <2>4. field[r] \in Field /\ Parent(field[r]) = field[r]
    BY <1>2, <2>1, <2>3, MediaFields, FieldsAreTheirOwnParents
  <2>5. CASE field[r] \in mapping.defaults
    BY <1>5, <2>4, <2>5
  <2>6. CASE field[r] \notin mapping.defaults
    BY <1>6, <1>8, <2>1, <2>4, <2>6
  <2> QED BY <2>5, <2>6
<1> QED BY <1>7, <1>8

\* What is discovered can be mapped, and a call orders from an endpoint that nobody
\* configured only when its schema was mapped and the mapping does what is asked.
Prepared ==
  /\ \A e \in discovered : Derivable(Published[e])
  /\ \A c \in Call : Discovers(c) =>
       ask[c].model \in Endpoint /\ Derivable(Published[ask[c].model]) /\ Usable(c)

\* Nobody but a call that resolves its endpoint comes to order from fal.ai.
LEMMA OnlyResolvedOrder ==
  ASSUME TypeOK, NEW c \in Call,
         (CallStep(c) /\ ~Resolve(c)) \/ ProviderFinishes(c) \/ Dropped(c)
  PROVE  /\ UNCHANGED <<ask, discovered>>
         /\ \A d \in Call : at'[d] = "ordering" /\ OnFal(d) => at[d] = "ordering"
<1> USE DEF TypeOK
<1>1. CASE Begin(c)
  BY <1>1 DEF Begin, Fails, Goes
<1>2. CASE OrderAnswered(c) \/ LooksCompleted(c) \/ Fetch(c)
  BY <1>2, TakesTypes DEF OrderAnswered, LooksCompleted, Fetch, Fails, Goes
<1>3. CASE \/ ResolveFails(c) \/ OrderQueued(c) \/ OrderAnswerLost(c) \/ OrderFails(c)
           \/ Check(c) \/ Sleep(c) \/ LooksRunning(c) \/ LooksFailed(c) \/ LookFails(c)
  BY <1>3 DEF ResolveFails, OrderQueued, OrderAnswerLost, OrderFails, Check, Sleep, LooksRunning,
              LooksFailed, LookFails, Fails, Goes
<1>4. CASE \/ Download(c) \/ DownloadFails(c) \/ Return(c) \/ Dropped(c) \/ ProviderFinishes(c)
  BY <1>4 DEF Download, DownloadFails, Return, Dropped, ProviderFinishes, Fails, Goes
<1> QED BY <1>1, <1>2, <1>3, <1>4 DEF CallStep

LEMMA ResolvePrepares ==
  ASSUME Inv, Prepared, NEW c \in Call, Resolve(c) PROVE Prepared'
<1> USE DEF Inv, TypeOK
<1>1. ask' = ask
  BY DEF Resolve
<1>2. \A e \in discovered' : Derivable(Published[e])
  BY DEF Resolve, Prepared, Known
<1>3. ask[c].model \in Endpoint
      /\ (ask[c].model \notin DOMAIN Configured => Derivable(Published[ask[c].model]))
  BY DEF Resolve, Prepared, Known
<1>4. at'[c] = "ordering" => Usable(c)
  BY DEF Resolve, Goes, Fails
<1>5. \A d \in Call \ {c} : at'[d] = at[d]
  BY DEF Resolve, Goes, Fails
<1>6. ASSUME NEW d \in Call, Discovers(d)'
      PROVE  ask[d].model \in Endpoint /\ Derivable(Published[ask[d].model]) /\ Usable(d)
  <2>1. CASE d = c
    BY <1>1, <1>3, <1>4, <1>6, <2>1 DEF Discovers
  <2>2. CASE d # c
    BY <1>1, <1>5, <1>6, <2>2 DEF Discovers, Prepared, OnFal
  <2> QED BY <2>1, <2>2
<1>7. \A d \in Call : Usable(d)' <=> Usable(d)
  BY <1>1 DEF Usable
<1> QED BY <1>1, <1>2, <1>6, <1>7 DEF Prepared

LEMMA PreparedIsInductive == Inv /\ Prepared /\ [Next]_vars => Prepared'
<1> SUFFICES ASSUME Inv, Prepared, [Next]_vars PROVE Prepared'
  OBVIOUS
<1>1. ASSUME UNCHANGED <<ask, discovered>>,
             \A d \in Call : at'[d] = "ordering" /\ OnFal(d) => at[d] = "ordering"
      PROVE  Prepared'
  BY <1>1 DEF Prepared, Discovers, OnFal, Usable
<1>2. CASE UNCHANGED vars
  BY <1>1, <1>2 DEF vars
<1>3. ASSUME NEW c \in Call, CallStep(c) \/ ProviderFinishes(c) \/ Dropped(c) PROVE Prepared'
  <2>1. CASE Resolve(c)
    BY <2>1, ResolvePrepares
  <2>2. CASE ~Resolve(c)
    BY <1>1, <1>3, <2>2, OnlyResolvedOrder DEF Inv
  <2> QED BY <2>1, <2>2
<1> QED BY <1>2, <1>3 DEF Next

\* Whatever endpoints there are, whatever schemas they publish and whatever is
\* configured: an order from an endpoint whose mapping was derived lacks no required
\* input but those of which the request says nothing, and has the media that its
\* capability is named for (endpoint_from_openapi, fal_input).
THEOREM DerivedOrdersAreComplete == Spec => []OrdersLackOnlyTheUnsaid
<1>1. Init => Prepared
  BY DEF Init, Prepared, Discovers
<1>2. Inv /\ Prepared => OrdersLackOnlyTheUnsaid
  <2> SUFFICES ASSUME Inv, Prepared, NEW c \in Call, Discovers(c)
               PROVE  LET field == Is(ask[c].model).field
                          needed == Needs(Specialized(ask[c].kind, ask[c].refs))
                      IN /\ Lacks(c) \subseteq {field[r] : r \in Role \ (ask[c].refs \cup Says(c))}
                         /\ needed \subseteq ask[c].refs =>
                              {Parent(field[r]) : r \in needed} \subseteq Filled(c)
    BY DEF OrdersLackOnlyTheUnsaid
  <2>1. /\ ask[c].model \in Endpoint /\ ask[c].model \notin DOMAIN Configured
        /\ Derivable(Published[ask[c].model]) /\ Usable(c)
    BY DEF Prepared, Discovers
  <2> QED BY <2>1, DerivedOrders DEF Inv
<1> QED BY <1>1, <1>2, PreparedIsInductive, JobsInvariant, PTL DEF Spec

-----------------------------------------------------------------------------
(* The generators implement PaidWork.                                      *)

LEMMA StepIsPaidWork ==
  ASSUME Inv, Inv', NEW c \in Call, CallStep(c) \/ ProviderFinishes(c) \/ Dropped(c)
  PROVE  [Paid!Next]_<<job, result>>
<1> USE DEF Inv, TypeOK, Sound, Paid!Next
<1>1. CASE \/ Begin(c) \/ Resolve(c) \/ ResolveFails(c) \/ OrderFails(c) \/ Check(c)
           \/ Sleep(c) \/ LooksRunning(c) \/ LooksFailed(c) \/ LookFails(c) \/ Download(c)
           \/ DownloadFails(c) \/ Dropped(c)
  <2>1. UNCHANGED <<job, result>> \/ Paid!GiveUp(c)
    BY <1>1 DEF Begin, Resolve, ResolveFails, OrderFails, Check, Sleep, LooksRunning,
                LooksFailed, LookFails, Download, DownloadFails, Dropped, Fails, Goes, Paid!GiveUp
  <2> QED BY <2>1
<1>2. CASE LooksCompleted(c) \/ Fetch(c)
  <2>1. UNCHANGED <<job, result>> \/ Paid!GiveUp(c)
    BY <1>2, TakesTypes DEF LooksCompleted, Fetch, Fails, Goes, Paid!GiveUp
  <2> QED BY <2>1
<1>3. CASE OrderQueued(c) \/ OrderAnswerLost(c)
  <2>1. Paid!Order(c)
    BY <1>3 DEF OrderQueued, OrderAnswerLost, Fails, Goes, Paid!Order
  <2> QED BY <2>1
<1>4. CASE OrderAnswered(c)
  <2>1. Paid!Order(c)
    BY <1>4, TakesTypes DEF OrderAnswered, Paid!Order
  <2> QED BY <2>1
<1>5. CASE ProviderFinishes(c)
  <2>1. Paid!Progress(c)
    BY <1>5 DEF ProviderFinishes, Paid!Progress
  <2> QED BY <2>1
<1>6. CASE Return(c)
  <2>1. Paid!Deliver(c) \/ Paid!GiveUp(c)
    BY <1>6 DEF Return, Fails, Paid!Deliver, Paid!GiveUp
  <2> QED BY <2>1
<1> QED BY <1>1, <1>2, <1>3, <1>4, <1>5, <1>6 DEF CallStep

\* Whatever fails, is lost or is dropped, work is ordered once and what a caller
\* gets is finished work of its own order: the generators implement PaidWork.
THEOREM GeneratorsImplementPaidWork == Spec => PaidWorkSpec
<1>1. Init => Paid!Init
  BY DEF Init, Paid!Init
<1>2. Inv /\ Inv' /\ [Next]_vars => [Paid!Next]_<<job, result>>
  <2> SUFFICES ASSUME Inv, Inv', [Next]_vars PROVE [Paid!Next]_<<job, result>>
    OBVIOUS
  <2>1. CASE UNCHANGED vars
    BY <2>1 DEF vars
  <2>2. CASE Next
    BY <2>2, StepIsPaidWork DEF Next
  <2> QED BY <2>1, <2>2
<1> QED BY <1>1, <1>2, JobsInvariant, PTL DEF Spec, PaidWorkSpec, Paid!Spec
=============================================================================
