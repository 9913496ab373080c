---------------------------- MODULE ModelCatalog ----------------------------
(***************************************************************************)
(* One entry of the process-wide catalog cache (ModelCatalogCache::get): a  *)
(* provider's models, as one bot and key see them. Callers answer from a    *)
(* fresh entry; otherwise one of them at a time refreshes it, under a lock  *)
(* that is made when it is first needed, and answers with the stale entry   *)
(* when the provider fails. A caller may be dropped at any await.           *)
(*                                                                         *)
(* A catalog is the number of the fetch that returned it, 0 is none.        *)
(***************************************************************************)
EXTENDS Naturals

CONSTANTS
  Caller,      \* tasks that use this entry
  Life,        \* CATALOG_TTL, in ticks
  MaxNow,      \* bound: ticks of the clock
  Gets,        \* bound: calls of get, in all
  NoLock       \* a value that is not a caller

ASSUME CatalogAssumption ==
  /\ Life \in Nat \ {0} /\ MaxNow \in Nat /\ Gets \in Nat
  /\ NoLock \notin Caller

VARIABLES
  provider,   \* fal.ai, whose fetches run under a time-out of their own, or another
  now,        \* the clock
  entry,      \* the cached catalog and the time it was stored at
  published,  \* the lock in refresh_locks, named by the caller who made it
  holder,     \* who holds each lock
  pc,         \* the await a caller is at
  lock,       \* the lock a caller uses
  stale,      \* the catalog it read before it fetched
  fetched,    \* the catalog it fetched
  answer,     \* what its last get returned; 0 is an error, or nothing yet
  failed,     \* whether its last get returned an error
  known,      \* the newest catalog returned before that get began
  newest,     \* the newest catalog returned to anybody
  fetches,    \* catalogs fetched so far
  refreshed,  \* the time of the last refresh, and whether there was one
  gets,       \* calls of get so far
  lost        \* history: a caller was dropped between its removal and its insertion

vars == <<provider, now, entry, published, holder, pc, lock, stale, fetched, answer,
          failed, known, newest, fetches, refreshed, gets, lost>>
clockVars == <<provider, now, gets>>
cacheVars == <<entry, refreshed>>
lockVars  == <<published, holder, lock>>
dataVars  == <<stale, fetched, fetches, lost>>
reply     == <<answer, failed, known, newest>>

Stage == {"idle", "looking", "choosing", "publishing", "waiting", "rechecking",
          "fetching", "removing", "inserting"}
Refreshing == {"rechecking", "fetching", "removing", "inserting"}

TypeOK ==
  /\ provider \in {"fal", "other"}
  /\ lost \in BOOLEAN
  /\ now \in 0..MaxNow
  /\ entry \in [catalog : Nat, loaded : Nat]
  /\ published \in Caller \cup {NoLock}
  /\ holder \in [Caller -> Caller \cup {NoLock}]
  /\ pc \in [Caller -> Stage]
  /\ lock \in [Caller -> Caller]
  /\ stale \in [Caller -> Nat]
  /\ fetched \in [Caller -> Nat]
  /\ answer \in [Caller -> Nat]
  /\ failed \in [Caller -> BOOLEAN]
  /\ known \in [Caller -> Nat]
  /\ newest \in Nat
  /\ fetches \in Nat
  /\ refreshed \in [ever : BOOLEAN, at : Nat]
  /\ gets \in 0..Gets

None == [catalog |-> 0, loaded |-> 0]

Init ==
  /\ provider \in {"fal", "other"}
  /\ lost = FALSE
  /\ now = 0
  /\ entry = None
  /\ published = NoLock
  /\ holder = [l \in Caller |-> NoLock]
  /\ pc = [c \in Caller |-> "idle"]
  /\ lock = [c \in Caller |-> c]
  /\ stale = [c \in Caller |-> 0]
  /\ fetched = [c \in Caller |-> 0]
  /\ answer = [c \in Caller |-> 0]
  /\ failed = [c \in Caller |-> FALSE]
  /\ known = [c \in Caller |-> 0]
  /\ newest = 0
  /\ fetches = 0
  /\ refreshed = [ever |-> FALSE, at |-> 0]
  /\ gets = 0

-----------------------------------------------------------------------------
(* Helpers                                                                 *)

\* fresh: the entry, if it is younger than its life.
Fresh == entry.catalog # 0 /\ now - entry.loaded < Life

GoTo(c, stage) == pc' = [pc EXCEPT ![c] = stage]

\* The guard goes with the future.
Release(c) == holder' = [l \in Caller |-> IF holder[l] = c THEN NoLock ELSE holder[l]]

Return(c, catalog) ==
  /\ GoTo(c, "idle")
  /\ answer' = [answer EXCEPT ![c] = catalog]
  /\ newest' = IF catalog > newest THEN catalog ELSE newest
  /\ UNCHANGED <<failed, known>>

Fail(c) ==
  /\ GoTo(c, "idle")
  /\ failed' = [failed EXCEPT ![c] = TRUE]
  /\ UNCHANGED <<answer, known, newest>>

-----------------------------------------------------------------------------
(* A call of get                                                           *)

Start(c) ==
  /\ pc[c] = "idle" /\ gets < Gets
  /\ gets' = gets + 1
  /\ GoTo(c, "looking")
  /\ answer' = [answer EXCEPT ![c] = 0]
  /\ failed' = [failed EXCEPT ![c] = FALSE]
  /\ known' = [known EXCEPT ![c] = newest]
  /\ UNCHANGED <<provider, now, newest, cacheVars, lockVars, dataVars>>

Look(c) ==
  /\ pc[c] = "looking"
  /\ IF Fresh THEN Return(c, entry.catalog)
     ELSE GoTo(c, "choosing") /\ UNCHANGED reply
  /\ UNCHANGED <<cacheVars, lockVars, dataVars, clockVars>>

\* The lock that is there, or a candidate of its own.
Choose(c) ==
  /\ pc[c] = "choosing"
  /\ lock' = [lock EXCEPT ![c] = IF published = NoLock THEN c ELSE published]
  /\ GoTo(c, IF published = NoLock THEN "publishing" ELSE "waiting")
  /\ UNCHANGED <<published, holder, reply, cacheVars, dataVars, clockVars>>

\* insert_async keeps what another caller has inserted; what is there is used.
Publish(c) ==
  /\ pc[c] = "publishing"
  /\ published' = IF published = NoLock THEN c ELSE published
  /\ lock' = [lock EXCEPT ![c] = published']
  /\ GoTo(c, "waiting")
  /\ UNCHANGED <<holder, reply, cacheVars, dataVars, clockVars>>

Lock(c) ==
  /\ pc[c] = "waiting" /\ holder[lock[c]] = NoLock
  /\ holder' = [holder EXCEPT ![lock[c]] = c]
  /\ GoTo(c, "rechecking")
  /\ UNCHANGED <<published, lock, reply, cacheVars, dataVars, clockVars>>

\* Mutant: it is not looked again, behind the lock.
RecheckNot(c) ==
  /\ pc[c] = "rechecking"
  /\ stale' = [stale EXCEPT ![c] = entry.catalog]
  /\ GoTo(c, "fetching")
  /\ UNCHANGED <<holder, published, lock, fetched, fetches, lost, reply, cacheVars, clockVars>>

\* Another caller may have refreshed it by now; else the stale entry is kept.
Recheck(c) ==
  /\ pc[c] = "rechecking"
  /\ IF Fresh
     THEN Return(c, entry.catalog) /\ Release(c) /\ UNCHANGED stale
     ELSE /\ stale' = [stale EXCEPT ![c] = entry.catalog]
          /\ GoTo(c, "fetching")
          /\ UNCHANGED <<holder, reply>>
  /\ UNCHANGED <<published, lock, fetched, fetches, lost, cacheVars, clockVars>>

Fetched(c) ==
  /\ pc[c] = "fetching"
  /\ fetches' = fetches + 1
  /\ fetched' = [fetched EXCEPT ![c] = fetches']
  /\ GoTo(c, "removing")
  /\ UNCHANGED <<stale, lost, reply, cacheVars, lockVars, clockVars>>

\* Mutant: a failure is returned as one.
FetchFailsAlways(c) ==
  /\ pc[c] = "fetching"
  /\ Fail(c)
  /\ Release(c)
  /\ UNCHANGED <<published, lock, cacheVars, dataVars, clockVars>>

\* A stale catalog is better than an error.
FetchFails(c) ==
  /\ pc[c] = "fetching"
  /\ IF stale[c] # 0 THEN Return(c, stale[c]) ELSE Fail(c)
  /\ Release(c)
  /\ UNCHANGED <<published, lock, cacheVars, dataVars, clockVars>>

\* The time-out over a fal.ai discovery returns its own error.
FetchTimesOut(c) ==
  /\ provider = "fal" /\ pc[c] = "fetching"
  /\ Fail(c)
  /\ Release(c)
  /\ UNCHANGED <<published, lock, cacheVars, dataVars, clockVars>>

\* Mutant: the stale entry is not removed.
RemoveNot(c) ==
  /\ pc[c] = "removing"
  /\ GoTo(c, "inserting")
  /\ UNCHANGED <<reply, cacheVars, lockVars, dataVars, clockVars>>

Remove(c) ==
  /\ pc[c] = "removing"
  /\ entry' = None
  /\ GoTo(c, "inserting")
  /\ UNCHANGED <<refreshed, reply, lockVars, dataVars, clockVars>>

\* insert_async, which keeps an entry that is there.
Insert(c) ==
  /\ pc[c] = "inserting"
  /\ entry' = IF entry = None THEN [catalog |-> fetched[c], loaded |-> now] ELSE entry
  /\ refreshed' = [ever |-> TRUE, at |-> now]
  /\ Return(c, fetched[c])
  /\ Release(c)
  /\ UNCHANGED <<published, lock, dataVars, clockVars>>

\* A cancelled request, or a panel's handler whose browser has gone.
Drop(c) ==
  /\ pc[c] # "idle"
  /\ GoTo(c, "idle")
  /\ Release(c)
  /\ lost' = (lost \/ pc[c] = "inserting")
  /\ UNCHANGED <<published, lock, stale, fetched, fetches, reply, cacheVars, clockVars>>

Tick ==
  /\ now < MaxNow
  /\ now' = now + 1
  /\ UNCHANGED <<provider, pc, gets, reply, cacheVars, lockVars, dataVars>>

GetStep(c) ==
  \/ Look(c) \/ Choose(c) \/ Publish(c) \/ Recheck(c) \/ Remove(c) \/ Insert(c)
  \/ Fetched(c) \/ FetchFails(c) \/ FetchTimesOut(c)

Next == Tick \/ \E c \in Caller : Start(c) \/ GetStep(c) \/ Lock(c) \/ Drop(c)

Spec == Init /\ [][Next]_vars

-----------------------------------------------------------------------------
(* Properties                                                              *)

\* One caller at a time asks the provider, also when several are the first to need
\* a lock (catalog.rs:195, "single-flight refreshes").
SingleFlight ==
  \A c, d \in Caller : pc[c] \in Refreshing /\ pc[d] \in Refreshing => c = d

\* A catalog that was refreshed is not refreshed again within its life.
RefreshedOncePerLife ==
  [][refreshed' # refreshed => ~refreshed.ever \/ now - refreshed.at >= Life]_vars

\* A get never returns an older catalog than one that was returned before it began,
\* be it cached, fetched or stale.
AnswersNeverGoBack == \A c \in Caller : answer[c] # 0 => answer[c] >= known[c]

\* Once somebody was given a catalog, nobody who asks later is given an error
\* (catalog.rs:339, "A stale catalog is preferable"), but where fal.ai's time-out
\* returns its own, or a dropped caller took the catalog along.
StaleServes ==
  provider # "fal" /\ ~lost => \A c \in Caller : failed[c] => known[c] = 0
=============================================================================
