------------------------- MODULE ModelCatalogProofs -------------------------
(***************************************************************************)
(* Proofs about ModelCatalog: one refresh at a time, answers that do not go *)
(* back, and stale catalogs that stay usable, for any callers and lives.    *)
(***************************************************************************)
EXTENDS ModelCatalog, TLAPS

\* Every variable keeps to its type.
THEOREM TypeInvariant == Spec => []TypeOK
<1>1. Init => TypeOK
  <2> SUFFICES ASSUME Init PROVE TypeOK
    OBVIOUS
  <2>1. lost \in BOOLEAN
    BY DEF Init
  <2> QED BY <2>1, CatalogAssumption DEF Init, TypeOK, Stage, None
<1>2. TypeOK /\ [Next]_vars => TypeOK'
  <2> SUFFICES ASSUME TypeOK, [Next]_vars PROVE TypeOK'
    OBVIOUS
  <2> USE CatalogAssumption
      DEF TypeOK, Stage, GoTo, clockVars, cacheVars, lockVars, dataVars, reply
  <2>1. CASE UNCHANGED vars
    BY <2>1 DEF vars
  <2>2. CASE Tick
    BY <2>2 DEF Tick
  <2>3. ASSUME NEW c \in Caller, Start(c) PROVE TypeOK'
    BY <2>3 DEF Start
  <2>4. ASSUME NEW c \in Caller, Look(c) PROVE TypeOK'
    BY <2>4 DEF Look, Return
  <2>5. ASSUME NEW c \in Caller, Choose(c) \/ Publish(c) PROVE TypeOK'
    BY <2>5 DEF Choose, Publish
  <2>6. ASSUME NEW c \in Caller, Recheck(c) PROVE TypeOK'
    BY <2>6 DEF Recheck, Return, Release
  <2>7. ASSUME NEW c \in Caller, Remove(c) \/ Fetched(c) PROVE TypeOK'
    BY <2>7 DEF Remove, Fetched, None
  <2>8. ASSUME NEW c \in Caller, Insert(c) PROVE TypeOK'
    <3>1. /\ entry' \in [catalog : Nat, loaded : Nat]
          /\ refreshed' \in [ever : BOOLEAN, at : Nat]
      BY <2>8 DEF Insert
    <3> QED BY <2>8, <3>1 DEF Insert, Return, Release
  <2>9. ASSUME NEW c \in Caller, FetchTimesOut(c) PROVE TypeOK'
    BY <2>9 DEF FetchTimesOut, Fail, Release
  <2>10. ASSUME NEW c \in Caller, FetchFails(c) PROVE TypeOK'
    <3>1. /\ pc' \in [Caller -> Stage] /\ answer' \in [Caller -> Nat]
          /\ newest' \in Nat /\ failed' \in [Caller -> BOOLEAN] /\ known' = known
      <4>1. stale[c] \in Nat /\ newest \in Nat
        OBVIOUS
      <4>2. CASE stale[c] # 0
        BY <2>10, <4>1, <4>2 DEF FetchFails, Return
      <4>3. CASE stale[c] = 0
        BY <2>10, <4>3 DEF FetchFails, Fail
      <4> QED BY <4>2, <4>3
    <3>2. holder' \in [Caller -> Caller \cup {NoLock}]
      BY <2>10 DEF FetchFails, Release
    <3> QED BY <2>10, <3>1, <3>2 DEF FetchFails
  <2>11. ASSUME NEW c \in Caller, Lock(c) PROVE TypeOK'
    BY <2>11 DEF Lock
  <2>12. ASSUME NEW c \in Caller, Drop(c) PROVE TypeOK'
    <3>1. lost' \in BOOLEAN
      BY <2>12 DEF Drop
    <3> QED BY <2>12, <3>1 DEF Drop, Release
  <2> QED
    BY <2>1, <2>2, <2>3, <2>4, <2>5, <2>6, <2>7, <2>8, <2>10, <2>11, <2>9, <2>12 DEF Next, GetStep
<1> QED BY <1>1, <1>2, PTL DEF Spec

-----------------------------------------------------------------------------
(* One refresh at a time                                                   *)

\* A caller past the choice of a lock uses the published one; a refreshing caller
\* holds it, and a lock is held by refreshing callers only.
LockInv ==
  /\ \A c \in Caller :
       /\ pc[c] \in {"waiting"} \cup Refreshing => lock[c] = published
       /\ pc[c] \in Refreshing => holder[lock[c]] = c
  /\ \A l \in Caller : holder[l] # NoLock => pc[holder[l]] \in Refreshing /\ lock[holder[l]] = l

\* A return, an error or a drop of a caller frees what it holds, and only that.
LEMMA Released ==
  ASSUME TypeOK, LockInv, NEW c \in Caller, Release(c), GoTo(c, "idle"),
         UNCHANGED <<published, lock>>
  PROVE  LockInv'
<1> USE DEF TypeOK, Release, GoTo, Refreshing
<1>1. ASSUME NEW d \in Caller, pc'[d] \in {"waiting"} \cup Refreshing
      PROVE  /\ lock'[d] = published'
             /\ pc'[d] \in Refreshing => holder'[lock'[d]] = d
  <2>1. d # c /\ pc'[d] = pc[d]
    BY <1>1
  <2> QED BY <1>1, <2>1, CatalogAssumption DEF LockInv
<1>2. ASSUME NEW l \in Caller, holder'[l] # NoLock
      PROVE  pc'[holder'[l]] \in Refreshing /\ lock'[holder'[l]] = l
  <2>1. holder'[l] = holder[l] /\ holder[l] # c /\ holder[l] \in Caller
    BY <1>2
  <2> QED BY <1>2, <2>1 DEF LockInv
<1> QED BY <1>1, <1>2 DEF LockInv

LEMMA LocksAreKept == Spec => []LockInv
<1>1. Init => LockInv
  BY DEF Init, LockInv, Refreshing
<1>2. TypeOK /\ LockInv /\ [Next]_vars => LockInv'
  <2> SUFFICES ASSUME TypeOK, LockInv, [Next]_vars PROVE LockInv'
    OBVIOUS
  <2> USE CatalogAssumption
      DEF TypeOK, Stage, GoTo, Refreshing, clockVars, cacheVars, lockVars, dataVars, reply
  <2>1. CASE UNCHANGED vars
    BY <2>1 DEF vars, LockInv
  <2>2. CASE Tick
    BY <2>2 DEF Tick, LockInv
  <2>3. ASSUME NEW c \in Caller, Start(c) PROVE LockInv'
    BY <2>3 DEF Start, LockInv
  <2>4. ASSUME NEW c \in Caller, Look(c) PROVE LockInv'
    BY <2>4 DEF Look, Return, LockInv
  <2>5. ASSUME NEW c \in Caller, Choose(c) PROVE LockInv'
    BY <2>5 DEF Choose, LockInv
  <2>6. ASSUME NEW c \in Caller, Publish(c) PROVE LockInv'
    <3>1. \A d \in Caller : pc[d] \in {"waiting"} \cup Refreshing => published' = published
      BY <2>6 DEF Publish, LockInv
    <3>2. \A l \in Caller : holder[l] # NoLock => holder[l] # c
      BY <2>6 DEF Publish, LockInv
    <3> QED BY <2>6, <3>1, <3>2 DEF Publish, LockInv
  <2>7. ASSUME NEW c \in Caller, Lock(c) PROVE LockInv'
    BY <2>7 DEF Lock, LockInv
  <2>8. ASSUME NEW c \in Caller, Recheck(c) PROVE LockInv'
    <3>1. CASE Fresh
      BY <2>8, <3>1, Released DEF Recheck, Return
    <3>2. CASE ~Fresh
      BY <2>8, <3>2 DEF Recheck, LockInv
    <3> QED BY <3>1, <3>2
  <2>9. ASSUME NEW c \in Caller, Fetched(c) \/ Remove(c) PROVE LockInv'
    BY <2>9 DEF Fetched, Remove, LockInv
  <2>10. ASSUME NEW c \in Caller,
                FetchFails(c) \/ FetchTimesOut(c) \/ Insert(c) \/ Drop(c)
         PROVE  LockInv'
    BY <2>10, Released DEF FetchFails, FetchTimesOut, Insert, Drop, Return, Fail
  <2> QED
    BY <2>1, <2>2, <2>3, <2>4, <2>5, <2>6, <2>7, <2>8, <2>9, <2>10 DEF Next, GetStep
<1> QED BY <1>1, <1>2, TypeInvariant, PTL DEF Spec

LEMMA OneHolder ==
  ASSUME LockInv PROVE SingleFlight
BY DEF LockInv, SingleFlight

\* The provider is asked by one caller at a time, whatever is dropped.
THEOREM OneRefreshAtATime == Spec => []SingleFlight
<1> QED BY OneHolder, LocksAreKept, PTL

-----------------------------------------------------------------------------
(* Answers                                                                 *)

\* The cached catalog is as new as any that was returned, the stale one is the
\* cached one until it is replaced, and what is stored is what was fetched last.
AnswerInv ==
  /\ newest <= fetches /\ entry.catalog <= fetches
  /\ entry.catalog = 0 => entry = None
  /\ entry.catalog # 0 => newest <= entry.catalog
  /\ \A c \in Caller :
       /\ known[c] <= newest
       /\ pc[c] = "fetching" => stale[c] = entry.catalog
       /\ pc[c] \in {"removing", "inserting"} => fetched[c] = fetches /\ fetches # 0
       /\ pc[c] = "inserting" => entry = None
       /\ answer[c] # 0 => answer[c] >= known[c]

\* What holds after an answer that is as new as any.
LEMMA ReturnedIsNew ==
  ASSUME TypeOK, AnswerInv, NEW c \in Caller, NEW catalog \in Nat, Return(c, catalog),
         newest <= catalog, catalog <= fetches, entry.catalog # 0 => catalog <= entry.catalog,
         UNCHANGED <<entry, fetched, fetches>>,
         \A d \in Caller : d # c => stale'[d] = stale[d]
  PROVE  AnswerInv'
<1> USE DEF TypeOK, Return, GoTo
<1>1. newest' = catalog
  OBVIOUS
<1>2. ASSUME NEW d \in Caller
      PROVE  /\ known'[d] <= newest'
             /\ pc'[d] = "fetching" => stale'[d] = entry'.catalog
             /\ pc'[d] \in {"removing", "inserting"} => fetched'[d] = fetches' /\ fetches' # 0
             /\ pc'[d] = "inserting" => entry' = None
             /\ answer'[d] # 0 => answer'[d] >= known'[d]
  <2>1. known[d] <= newest /\ known'[d] = known[d]
    BY DEF AnswerInv
  <2>2. known[d] \in Nat /\ newest \in Nat
    OBVIOUS
  <2>3. known'[d] <= newest' /\ known'[d] <= catalog
    BY <1>1, <2>1, <2>2
  <2>4. CASE d = c
    BY <2>3, <2>4
  <2>5. CASE d # c
    BY <2>3, <2>5 DEF AnswerInv
  <2> QED BY <2>4, <2>5
<1> QED BY <1>1, <1>2 DEF AnswerInv

LEMMA AnswersAreKept == Spec => []AnswerInv
<1>1. Init => AnswerInv
  BY DEF Init, AnswerInv, None
<1>2. TypeOK /\ SingleFlight /\ AnswerInv /\ [Next]_vars => AnswerInv'
  <2> SUFFICES ASSUME TypeOK, SingleFlight, AnswerInv, [Next]_vars PROVE AnswerInv'
    OBVIOUS
  <2> USE DEF TypeOK, GoTo, clockVars, cacheVars, lockVars, dataVars, reply
  <2>1. CASE UNCHANGED vars
    BY <2>1 DEF vars, AnswerInv
  <2>2. CASE Tick
    BY <2>2 DEF Tick, AnswerInv
  <2>3. ASSUME NEW c \in Caller, Start(c) PROVE AnswerInv'
    BY <2>3 DEF Start, AnswerInv
  <2>4. ASSUME NEW c \in Caller, Look(c) PROVE AnswerInv'
    <3>1. CASE Fresh
      <4>1. newest <= entry.catalog /\ entry.catalog <= fetches /\ entry.catalog \in Nat
        BY <3>1 DEF Fresh, AnswerInv
      <4> QED BY <2>4, <3>1, <4>1, ReturnedIsNew DEF Look
    <3>2. CASE ~Fresh
      BY <2>4, <3>2 DEF Look, AnswerInv
    <3> QED BY <3>1, <3>2
  <2>5. ASSUME NEW c \in Caller, Choose(c) \/ Publish(c) \/ Lock(c) PROVE AnswerInv'
    BY <2>5 DEF Choose, Publish, Lock, AnswerInv
  <2>6. ASSUME NEW c \in Caller, Recheck(c) PROVE AnswerInv'
    <3>1. CASE Fresh
      <4>1. newest <= entry.catalog /\ entry.catalog <= fetches /\ entry.catalog \in Nat
        BY <3>1 DEF Fresh, AnswerInv
      <4> QED BY <2>6, <3>1, <4>1, ReturnedIsNew DEF Recheck
    <3>2. CASE ~Fresh
      BY <2>6, <3>2 DEF Recheck, AnswerInv
    <3> QED BY <3>1, <3>2
  <2>7. ASSUME NEW c \in Caller, Fetched(c) PROVE AnswerInv'
    <3>1. \A d \in Caller : d # c => pc'[d] \notin {"removing", "inserting", "fetching"}
      BY <2>7 DEF Fetched, SingleFlight, Refreshing
    <3>2. fetched'[c] = fetches' /\ fetches' = fetches + 1 /\ pc'[c] = "removing"
      BY <2>7 DEF Fetched
    <3> QED BY <2>7, <3>1, <3>2 DEF Fetched, AnswerInv
  <2>8. ASSUME NEW c \in Caller, FetchFails(c) PROVE AnswerInv'
    <3>1. stale[c] = entry.catalog
      BY <2>8 DEF FetchFails, AnswerInv
    <3>2. CASE stale[c] # 0
      <4>1. newest <= entry.catalog /\ entry.catalog <= fetches /\ entry.catalog \in Nat
        BY <3>1, <3>2 DEF AnswerInv
      <4> QED BY <2>8, <3>1, <3>2, <4>1, ReturnedIsNew DEF FetchFails
    <3>3. CASE stale[c] = 0
      BY <2>8, <3>3 DEF FetchFails, Fail, AnswerInv
    <3> QED BY <3>2, <3>3
  <2>9. ASSUME NEW c \in Caller, FetchTimesOut(c) \/ Drop(c) PROVE AnswerInv'
    BY <2>9 DEF FetchTimesOut, Fail, Drop, AnswerInv
  <2>10. ASSUME NEW c \in Caller, Remove(c) PROVE AnswerInv'
    <3>1. \A d \in Caller : pc'[d] # "fetching"
      BY <2>10 DEF Remove, SingleFlight, Refreshing
    <3>2. entry' = None /\ entry'.catalog = 0
      BY <2>10 DEF Remove, None
    <3> QED BY <2>10, <3>1, <3>2 DEF Remove, AnswerInv
  <2>11. ASSUME NEW c \in Caller, Insert(c) PROVE AnswerInv'
    <3>1. \A d \in Caller : pc'[d] \notin {"removing", "inserting", "fetching"}
      BY <2>11 DEF Insert, Return, SingleFlight, Refreshing
    <3>2. /\ entry = None /\ fetched[c] = fetches /\ fetches # 0
          /\ entry'.catalog = fetches
      BY <2>11 DEF Insert, AnswerInv
    <3>3. newest' = fetches /\ fetches' = fetches /\ known' = known
      BY <2>11, <3>2 DEF Insert, Return, AnswerInv
    <3>4. \A d \in Caller : known'[d] <= newest'
      BY <3>3 DEF AnswerInv
    <3>5. \A d \in Caller : answer'[d] # 0 => answer'[d] >= known'[d]
      BY <2>11, <3>2, <3>3, <3>4 DEF Insert, Return, AnswerInv
    <3> QED BY <3>1, <3>2, <3>3, <3>4, <3>5 DEF AnswerInv
  <2> QED
    BY <2>1, <2>2, <2>3, <2>4, <2>5, <2>6, <2>7, <2>8, <2>9, <2>10, <2>11 DEF Next, GetStep
<1> QED BY <1>1, <1>2, TypeInvariant, OneRefreshAtATime, PTL DEF Spec

\* No get returns a catalog older than one returned before it began.
THEOREM AnswersStayNew == Spec => []AnswersNeverGoBack
<1>1. AnswerInv => AnswersNeverGoBack
  BY DEF AnswerInv, AnswersNeverGoBack
<1> QED BY <1>1, AnswersAreKept, PTL

-----------------------------------------------------------------------------
(* Stale catalogs                                                          *)

\* A catalog somebody was given is cached, but for the moment it is replaced in,
\* and for good when the caller who replaces it is dropped then.
ServeInv ==
  /\ newest # 0 /\ entry.catalog = 0 /\ ~lost => \E c \in Caller : pc[c] = "inserting"
  /\ StaleServes

\* Unless a caller took the catalog along, or fal.ai's time-out came, an error means
\* that nobody was given a catalog before.
THEOREM StaleStaysUsable == Spec => []StaleServes
<1>1. Init => ServeInv
  BY DEF Init, ServeInv, StaleServes
<1>2. TypeOK /\ SingleFlight /\ AnswerInv /\ ServeInv /\ [Next]_vars => ServeInv'
  <2> SUFFICES ASSUME TypeOK, SingleFlight, AnswerInv, ServeInv, [Next]_vars PROVE ServeInv'
    OBVIOUS
  <2> USE DEF TypeOK, GoTo, clockVars, cacheVars, lockVars, dataVars, reply
  <2>1. CASE UNCHANGED vars
    BY <2>1 DEF vars, ServeInv, StaleServes
  <2>2. CASE Tick
    BY <2>2 DEF Tick, ServeInv, StaleServes
  <2>3. ASSUME NEW c \in Caller, Start(c) PROVE ServeInv'
    BY <2>3 DEF Start, ServeInv, StaleServes
  <2>4. ASSUME NEW c \in Caller, Look(c) \/ Recheck(c) PROVE ServeInv'
    <3>1. CASE Fresh
      BY <2>4, <3>1 DEF Look, Recheck, Return, Fresh, ServeInv, StaleServes
    <3>2. CASE ~Fresh
      BY <2>4, <3>2 DEF Look, Recheck, ServeInv, StaleServes
    <3> QED BY <3>1, <3>2
  <2>5. ASSUME NEW c \in Caller, Choose(c) \/ Publish(c) \/ Lock(c) \/ Fetched(c)
        PROVE  ServeInv'
    BY <2>5 DEF Choose, Publish, Lock, Fetched, ServeInv, StaleServes
  <2>6. ASSUME NEW c \in Caller, FetchFails(c) PROVE ServeInv'
    <3>1. stale[c] = entry.catalog
      BY <2>6 DEF FetchFails, AnswerInv
    <3>2. CASE stale[c] # 0
      BY <2>6, <3>1, <3>2 DEF FetchFails, Return, ServeInv, StaleServes
    <3>3. CASE stale[c] = 0
      <4>1. \A d \in Caller : pc[d] # "inserting"
        BY <2>6 DEF FetchFails, SingleFlight, Refreshing
      <4>2. CASE lost
        BY <2>6, <3>3, <4>2 DEF FetchFails, Fail, ServeInv, StaleServes
      <4>3. CASE ~lost
        <5>1. newest = 0
          BY <3>1, <3>3, <4>1, <4>3 DEF ServeInv
        <5>2. known[c] = 0
          BY <5>1 DEF AnswerInv
        <5>3. /\ newest' = 0 /\ known' = known /\ lost' = lost /\ provider' = provider
              /\ \A d \in Caller : failed'[d] => d = c \/ failed[d]
          BY <2>6, <3>3, <5>1 DEF FetchFails, Fail
        <5> QED BY <5>2, <5>3 DEF ServeInv, StaleServes
      <4> QED BY <4>2, <4>3
    <3> QED BY <3>2, <3>3
  <2>7. ASSUME NEW c \in Caller, Remove(c) PROVE ServeInv'
    <3>1. pc'[c] = "inserting"
      BY <2>7 DEF Remove
    <3> QED BY <2>7, <3>1 DEF Remove, ServeInv, StaleServes
  <2>8. ASSUME NEW c \in Caller, Insert(c) PROVE ServeInv'
    <3>1. /\ entry'.catalog # 0 /\ failed' = failed /\ known' = known
          /\ provider' = provider /\ lost' = lost
      BY <2>8 DEF Insert, Return, AnswerInv
    <3> QED BY <3>1 DEF ServeInv, StaleServes
  <2>9. ASSUME NEW c \in Caller, FetchTimesOut(c) PROVE ServeInv'
    BY <2>9 DEF FetchTimesOut, Fail, ServeInv, StaleServes
  <2>10. ASSUME NEW c \in Caller, Drop(c) PROVE ServeInv'
    <3>1. CASE pc[c] = "inserting"
      BY <2>10, <3>1 DEF Drop, ServeInv, StaleServes
    <3>2. CASE pc[c] # "inserting"
      BY <2>10, <3>2 DEF Drop, ServeInv, StaleServes
    <3> QED BY <3>1, <3>2
  <2> QED BY <2>1, <2>2, <2>3, <2>4, <2>5, <2>6, <2>7, <2>8, <2>9, <2>10 DEF Next, GetStep
<1>3. ServeInv => StaleServes
  BY DEF ServeInv
<1> QED BY <1>1, <1>2, <1>3, TypeInvariant, OneRefreshAtATime, AnswersAreKept, PTL DEF Spec

-----------------------------------------------------------------------------
(* Once per life                                                           *)

\* The last refresh is a life ago.
Due == ~refreshed.ever \/ now - refreshed.at >= Life

\* The cached catalog is the one that was refreshed last; where there is none, or
\* where somebody fetches another one, it is due.
LifeInv ==
  /\ entry.catalog # 0 => entry.loaded = refreshed.at
  /\ entry.catalog = 0 => Due
  /\ \A c \in Caller : pc[c] \in {"fetching", "removing", "inserting"} => Due

\* Also a caller who is dropped between its removal and its insertion, or who waited
\* for the lock while another refreshed, refreshes no catalog within its life.
THEOREM RefreshesAreALifeApart == Spec => RefreshedOncePerLife
<1>1. Init => LifeInv
  BY DEF Init, LifeInv, Due, None
<1>2. TypeOK /\ SingleFlight /\ AnswerInv /\ LifeInv /\ [Next]_vars =>
        LifeInv' /\ (refreshed' # refreshed => Due)
  <2> SUFFICES ASSUME TypeOK, SingleFlight, AnswerInv, LifeInv, [Next]_vars
               PROVE  LifeInv' /\ (refreshed' # refreshed => Due)
    OBVIOUS
  <2> DEFINE Goal == LifeInv' /\ (refreshed' # refreshed => Due)
  <2>0. now \in Nat /\ Life \in Nat /\ refreshed.at \in Nat
    BY CatalogAssumption DEF TypeOK
  <2> USE <2>0 DEF TypeOK, GoTo, Due, clockVars, cacheVars, lockVars, dataVars, reply
  <2>1. CASE UNCHANGED vars
    BY <2>1 DEF vars, LifeInv
  <2>2. CASE Tick
    BY <2>2 DEF Tick, LifeInv
  <2>3. ASSUME NEW c \in Caller, Start(c) PROVE Goal
    BY <2>3 DEF Start, LifeInv
  <2>4. ASSUME NEW c \in Caller, Look(c) PROVE Goal
    BY <2>4 DEF Look, Return, LifeInv
  <2>5. ASSUME NEW c \in Caller, Choose(c) \/ Publish(c) \/ Lock(c) \/ Fetched(c) PROVE Goal
    BY <2>5 DEF Choose, Publish, Lock, Fetched, LifeInv
  <2>6. ASSUME NEW c \in Caller, Recheck(c) PROVE Goal
    <3>1. CASE Fresh
      BY <2>6, <3>1 DEF Recheck, Return, LifeInv
    <3>2. CASE ~Fresh
      <4>1. Due
        BY <3>2 DEF Fresh, LifeInv
      <4> QED BY <2>6, <3>2, <4>1 DEF Recheck, LifeInv
    <3> QED BY <3>1, <3>2
  <2>7. ASSUME NEW c \in Caller, FetchFails(c) \/ FetchTimesOut(c) \/ Drop(c) PROVE Goal
    BY <2>7 DEF FetchFails, FetchTimesOut, Drop, Return, Fail, LifeInv
  <2>8. ASSUME NEW c \in Caller, Remove(c) PROVE Goal
    BY <2>8 DEF Remove, None, LifeInv
  <2>9. ASSUME NEW c \in Caller, Insert(c) PROVE Goal
    <3>1. \A d \in Caller : pc'[d] \notin {"removing", "inserting", "fetching"}
      BY <2>9 DEF Insert, Return, SingleFlight, Refreshing
    <3>2. entry'.catalog # 0 /\ entry'.loaded = now /\ refreshed'.at = now
      BY <2>9 DEF Insert, AnswerInv
    <3> QED BY <2>9, <3>1, <3>2 DEF Insert, LifeInv
  <2> QED BY <2>1, <2>2, <2>3, <2>4, <2>5, <2>6, <2>7, <2>8, <2>9 DEF Next, GetStep
<1>3. TypeOK /\ SingleFlight /\ AnswerInv /\ LifeInv /\ [Next]_vars =>
        [refreshed' # refreshed => ~refreshed.ever \/ now - refreshed.at >= Life]_vars
  BY <1>2 DEF Due
<1> QED
  BY <1>1, <1>2, <1>3, TypeInvariant, OneRefreshAtATime, AnswersAreKept, PTL
     DEF Spec, RefreshedOncePerLife
=============================================================================
