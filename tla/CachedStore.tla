----------------------------- MODULE CachedStore -----------------------------
(***************************************************************************)
(* One entry of Store: its row in the database, its read-through cache and *)
(* the mutation lock, used by several tasks at once.  The five caches of   *)
(* Store work alike; they differ in the operations that reach them, each   *)
(* set of which is a member of Entries:                                    *)
(*   settings    get, update (set_model, set_capability, ...), replace     *)
(*   history     get, update (append_message), clear                       *)
(*   credential  get, put, remove                                          *)
(*   access      get, put, forget (remove_user_allowed)                    *)
(*   offset      get, put                                                  *)
(* Every await is a point where another task may run, and where the task   *)
(* itself may be dropped: a cancelled request or a closed HTTP connection. *)
(* A database write runs as a blocking task, which goes on when the task   *)
(* that awaits it is dropped.                                              *)
(*                                                                         *)
(* A value is the sequence of the changes that are in effect, each with    *)
(* its number: what append_message keeps of a history, or the settings     *)
(* changes not overwritten.  <<>> is an absent row.                        *)
(***************************************************************************)
EXTENDS Integers, Sequences

CONSTANTS
  Actor,      \* the tasks that use the entry
  Entries,    \* for each kind of entry, the operations that reach it
  Limit,      \* history_limit
  MayDrop,    \* whether tasks are dropped at their awaits
  MaxChange,  \* bound: how many numbered changes are begun
  Miss,       \* the cache holds nothing for the entry
  Nobody      \* the mutation lock is free

Locked    == {"update", "replace", "forget"}   \* take the mutation lock
Unlocked  == {"put", "remove", "clear"}
Numbered  == {"update", "replace", "put"}      \* leave a change in effect
Operation == {"get"} \cup Locked \cup Unlocked

ASSUME StoreAssumption ==
  /\ Entries \subseteq SUBSET Operation
  /\ Limit \in Nat \ {0}
  /\ MaxChange \in Nat
  /\ MayDrop \in BOOLEAN
  /\ Nobody \notin Actor
  /\ Miss \notin Seq(Nat)

VARIABLES
  ops,     \* the operations that reach the entry
  db,      \* the row
  cache,   \* the cached value, or Miss
  lock,    \* who holds mutation_lock
  pc,      \* the await each task is at
  op,      \* the operation it is in
  val,     \* the value it has read, or is writing
  begun,   \* how many numbered changes have begun
  change,  \* the number of the last change
  truth,   \* history: the changes in effect, each made on those before it
  stored,  \* history: truth, with the change that was written last made on it
  clean    \* history: no operations have raced since the entry was last at rest

history == <<truth, stored, clean>>

vars == <<db, cache, lock, pc, op, val, begun, change, ops, history>>

Value == Seq(Nat)
Await == {"idle", "lookup", "fetch", "fill", "lock", "check", "write", "evict",
          "publish", "orphan"}

TypeOK ==
  /\ ops \in Entries
  /\ db \in Value /\ truth \in Value /\ stored \in Value
  /\ cache \in Value \cup {Miss}
  /\ lock \in Actor \cup {Nobody}
  /\ pc \in [Actor -> Await]
  /\ op \in [Actor -> Operation]
  /\ val \in [Actor -> Value]
  /\ begun \in 0 .. MaxChange
  /\ change \in Nat
  /\ clean \in BOOLEAN

Init ==
  /\ ops \in Entries
  /\ db = <<>> /\ truth = <<>> /\ stored = <<>> /\ cache = Miss
  /\ lock = Nobody
  /\ pc = [a \in Actor |-> "idle"]
  /\ op = [a \in Actor |-> "get"]
  /\ val = [a \in Actor |-> <<>>]
  /\ begun = 0 /\ change = 0
  /\ clean = TRUE

Busy(a) == pc[a] # "idle"
Goto(a, to) == pc' = [pc EXCEPT ![a] = to]

\* The value a change leaves; an update keeps the last Limit entries.
\* Mutant: the drain leaves one entry too many.
LastOfAndOne(s) == IF Len(s) > Limit THEN SubSeq(s, Len(s) - Limit, Len(s)) ELSE s

LastOf(s) == IF Len(s) > Limit THEN SubSeq(s, Len(s) - Limit + 1, Len(s)) ELSE s
Applied(k, n, v) ==
  CASE k = "update"             -> LastOf(Append(v, n))
    [] k \in {"put", "replace"} -> <<n>>
    [] OTHER                    -> <<>>

\* The number of the last change in a value.
LastNumber(v) == IF v = <<>> THEN 0 ELSE v[Len(v)]

\* Two operations that may overlap without harm: two reads, or two that the
\* lock keeps apart.
Harmless(j, k) == (j = "get" /\ k = "get") \/ (j \in Locked /\ k \in Locked)

OthersRest(a) == \A b \in Actor \ {a} : ~Busy(b)

\* What a writes, made on the changes in effect.
InEffect(a) == Applied(op[a], LastNumber(val[a]), truth)

\* A race is over when nobody is at work and the cache holds the row again; an
\* operation k joins one if it overlaps with a write that lost its task, or with
\* an operation it may not overlap with.
Joins(a, k) ==
  IF ~clean /\ OthersRest(a) /\ cache \in {Miss, db}
  THEN clean' = TRUE /\ truth' = db /\ stored' = db
  ELSE /\ clean' = (clean /\ \A b \in Actor \ {a} :
                              Busy(b) => pc[b] # "orphan" /\ Harmless(op[b], k))
       /\ UNCHANGED <<truth, stored>>

-----------------------------------------------------------------------------

Begin(a, k) ==
  /\ ~Busy(a)
  /\ k \in Numbered => begun < MaxChange
  /\ begun' = IF k \in Numbered THEN begun + 1 ELSE begun
  /\ op' = [op EXCEPT ![a] = k]
  /\ Joins(a, k)
  /\ Goto(a, CASE k = "get" -> "lookup" [] k \in Locked -> "lock" [] OTHER -> "write")
  /\ IF k = "put"
     THEN /\ change' = change + 1
          /\ val' = [val EXCEPT ![a] = Applied(k, change + 1, <<>>)]
     ELSE /\ change' = change
          /\ val' = [val EXCEPT ![a] = <<>>]
  /\ UNCHANGED <<db, cache, lock, ops>>

\* The guard is dropped with the operation that took it.
Released(a) == lock' = IF lock = a THEN Nobody ELSE lock

Return(a) ==
  /\ Goto(a, "idle")
  /\ Released(a)

\* Mutant: the operation does not wait for the lock.
AcquireAtOnce(a) ==
  /\ pc[a] = "lock"
  /\ lock' = a
  /\ IF op[a] = "replace"
     THEN /\ change' = change + 1
          /\ val' = [val EXCEPT ![a] = Applied("replace", change + 1, <<>>)]
          /\ Goto(a, "write")
     ELSE /\ UNCHANGED <<change, val>>
          /\ Goto(a, IF op[a] = "forget" THEN "check" ELSE "lookup")
  /\ UNCHANGED <<db, cache, op, begun, ops, history>>

\* mutation_lock.lock(): append_message and set_* go on to read, save_settings
\* to write, remove_user_allowed to look at the row itself.
Acquire(a) ==
  /\ pc[a] = "lock" /\ lock = Nobody
  /\ lock' = a
  /\ IF op[a] = "replace"
     THEN /\ change' = change + 1
          /\ val' = [val EXCEPT ![a] = Applied("replace", change + 1, <<>>)]
          /\ Goto(a, "write")
     ELSE /\ UNCHANGED <<change, val>>
          /\ Goto(a, IF op[a] = "forget" THEN "check" ELSE "lookup")
  /\ UNCHANGED <<db, cache, op, begun, ops, history>>

\* A read has its value v: an update computes the next one from it.
Got(a, v) ==
  IF op[a] = "update"
  THEN /\ change' = change + 1
       /\ val' = [val EXCEPT ![a] = Applied("update", change + 1, v)]
       /\ Goto(a, "write") /\ lock' = lock
  ELSE /\ change' = change
       /\ val' = [val EXCEPT ![a] = v]
       /\ Return(a)

LookupHits(a) ==
  /\ pc[a] = "lookup" /\ cache # Miss
  /\ Got(a, cache)
  /\ UNCHANGED <<db, cache, op, begun, ops, history>>

LookupMisses(a) ==
  /\ pc[a] = "lookup" /\ cache = Miss
  /\ Goto(a, "fetch")
  /\ UNCHANGED <<db, cache, lock, op, val, begun, change, ops, history>>

Fetch(a) ==
  /\ pc[a] = "fetch"
  /\ val' = [val EXCEPT ![a] = db]
  /\ Goto(a, "fill")
  /\ UNCHANGED <<db, cache, lock, op, begun, change, ops, history>>

\* insert_async does not replace what is already there.
Inserted(v) == IF cache = Miss THEN v ELSE cache

Fill(a) ==
  /\ pc[a] = "fill"
  /\ cache' = Inserted(val[a])
  /\ Got(a, val[a])
  /\ UNCHANGED <<db, op, begun, ops, history>>

\* remove_user_allowed returns false on an absent row.
Check(a) ==
  /\ pc[a] = "check"
  /\ IF db = <<>> THEN Return(a) ELSE Goto(a, "write") /\ lock' = lock
  /\ UNCHANGED <<db, cache, op, val, begun, change, ops, history>>

Write(a) ==
  /\ pc[a] = "write"
  /\ db' = val[a]
  /\ stored' = InEffect(a)
  /\ Goto(a, "evict")
  /\ UNCHANGED <<cache, lock, op, val, begun, change, ops, truth, clean>>

\* Mutant: no remove before the insert.
EvictNothing(a) ==
  /\ pc[a] = "evict"
  /\ IF op[a] = "clear" THEN Return(a) ELSE Goto(a, "publish") /\ lock' = lock
  /\ truth' = stored
  /\ UNCHANGED <<db, cache, op, val, begun, change, ops, stored, clean>>

\* cache.remove; clear_history is done after it.
Evict(a) ==
  /\ pc[a] = "evict"
  /\ cache' = Miss
  /\ IF op[a] = "clear" THEN Return(a) ELSE Goto(a, "publish") /\ lock' = lock
  /\ truth' = stored
  /\ UNCHANGED <<db, op, val, begun, change, ops, stored, clean>>

Publish(a) ==
  /\ pc[a] = "publish"
  /\ cache' = Inserted(val[a])
  /\ Return(a)
  /\ UNCHANGED <<db, op, val, begun, change, ops, history>>

-----------------------------------------------------------------------------
(* Errors, dropped tasks and restarts                                      *)

\* A database call fails and ? returns its error.
Fail(a) ==
  /\ pc[a] \in {"fetch", "check", "write"}
  /\ Return(a)
  /\ UNCHANGED <<db, cache, op, val, begun, change, ops, history>>

\* A write that is in the row is in effect only once no cached value hides it.
\* One that goes on without its task holds no lock, and races with whoever is
\* at work.
Dropped(a) ==
  /\ Goto(a, IF pc[a] = "write" THEN "orphan" ELSE "idle")
  /\ truth' = IF pc[a] = "evict" /\ cache = Miss THEN stored ELSE truth
  /\ clean' = (clean /\ (pc[a] = "write" => OthersRest(a)))

\* Mutant: a dropped task keeps the lock.
AbandonHolding(a) ==
  /\ MayDrop
  /\ Busy(a) /\ pc[a] # "orphan"
  /\ Dropped(a)
  /\ UNCHANGED <<db, cache, lock, op, val, begun, change, stored, ops>>

\* The task is dropped at its await; a write it waited for goes on by itself.
Abandon(a) ==
  /\ MayDrop
  /\ Busy(a) /\ pc[a] # "orphan"
  /\ Dropped(a)
  /\ Released(a)
  /\ UNCHANGED <<db, cache, op, val, begun, change, stored, ops>>

OrphanWrite(a) ==
  /\ pc[a] = "orphan"
  /\ Goto(a, "idle")
  /\ \/ /\ db' = val[a] /\ stored' = InEffect(a)
        /\ truth' = IF cache = Miss THEN InEffect(a) ELSE truth
     \/ UNCHANGED <<db, stored, truth>>
  /\ UNCHANGED <<cache, lock, op, val, begun, change, ops, clean>>

\* The process ends and starts again: only the row is left.
Restart ==
  /\ cache' = Miss /\ lock' = Nobody
  /\ pc' = [a \in Actor |-> "idle"]
  /\ stored' = (IF clean THEN stored ELSE db)
  /\ truth' = (IF clean THEN stored ELSE db)
  /\ clean' = TRUE
  /\ UNCHANGED <<db, op, val, begun, change, ops>>

-----------------------------------------------------------------------------

ActorStep(a) ==
  \/ Acquire(a) \/ LookupHits(a) \/ LookupMisses(a) \/ Fetch(a) \/ Fill(a) \/ Check(a)
  \/ Write(a) \/ Evict(a) \/ Publish(a) \/ OrphanWrite(a)

Next ==
  \/ \E a \in Actor :
       \/ \E k \in ops : Begin(a, k)
       \/ ActorStep(a) \/ Fail(a) \/ Abandon(a)
  \/ Restart

Spec == Init /\ [][Next]_vars

\* The runtime polls every task that can go on, a database call ends, and the
\* lock is handed out first come first served (tokio::sync::Mutex).
Fairness ==
  \A a \in Actor : WF_vars(ActorStep(a) \/ Fail(a)) /\ SF_vars(Acquire(a))

FairSpec == Spec /\ Fairness

-----------------------------------------------------------------------------
(* Properties                                                              *)

InOrder(v) ==
  /\ Len(v) <= Limit
  /\ \A i, j \in DOMAIN v : i < j => v[i] < v[j]

\* Whatever races, drops and restarts do to it, a stored or cached value holds
\* its changes in the order they were made, none twice, and no more than
\* history_limit of them (append_message).
ChangesInOrder == InOrder(db) /\ (cache # Miss => InOrder(cache))

\* While no operations race that the lock does not keep apart, every change is
\* written on top of all changes in effect, whichever tasks are dropped at whatever
\* await: no set_* or append_message undoes one that was finished. What a dropped
\* task wrote behind a cached value is not in effect, and the next change undoes it.
NoLostChange == clean => db = stored

\* And a reader gets the changes in effect, but for the moment between a write and
\* its eviction: the cache holds another value than the row only where the task that
\* wrote the row was dropped before it evicted.
CacheIsCurrent ==
  clean /\ (\A a \in Actor : pc[a] # "evict") =>
    cache \in {Miss, truth} /\ (cache = Miss => db = truth)

\* Every operation ends, also when the task that held the lock was dropped.
OperationsEnd == \A a \in Actor : Busy(a) ~> ~Busy(a)
=============================================================================
