-------------------------- MODULE CachedStoreProofs --------------------------
(***************************************************************************)
(* The cached store for any number of tasks, changes and any limit.        *)
(***************************************************************************)
EXTENDS CachedStore, SequenceTheorems, TLAPS

USE StoreAssumption

-----------------------------------------------------------------------------
(* What an operation makes of a value                                      *)

\* LastOf(s) is s without its first d entries, and d is as small as Limit allows.
DropsFirst(s, d) ==
  /\ LastOf(s) \in Value
  /\ Len(LastOf(s)) = Len(s) - d /\ Len(LastOf(s)) <= Limit
  /\ d = 0 \/ Len(s) - d = Limit
  /\ \A i \in 1 .. Len(s) - d : LastOf(s)[i] = s[d + i]

LEMMA LastOfIsTail ==
  ASSUME NEW s \in Value
  PROVE  \E d \in 0 .. Len(s) : DropsFirst(s, d)
<1>1. Len(s) \in Nat /\ s \in [1 .. Len(s) -> Nat]
  BY DEF Value
<1>2. CASE Len(s) <= Limit
  <2>1. LastOf(s) = s
    BY <1>1, <1>2 DEF LastOf
  <2>2. /\ Len(s) - 0 = Len(s) /\ 0 \in 0 .. Len(s)
        /\ \A i \in 1 .. Len(s) : 0 + i = i
    BY <1>1
  <2>3. DropsFirst(s, 0)
    BY <1>2, <2>1, <2>2 DEF DropsFirst
  <2>4. QED BY <2>2, <2>3
<1>3. CASE Len(s) > Limit
  <2> DEFINE e == Len(s) - Limit
             t == SubSeq(s, e + 1, Len(s))
  <2>1. e \in 0 .. Len(s) /\ e + 1 \in Int
    BY <1>1, <1>3
  <2>2. \A i \in e + 1 .. Len(s) : s[i] \in Nat
    BY <1>1, <2>1
  <2>3. /\ t \in Seq(Nat)
        /\ Len(t) = IF e + 1 <= Len(s) THEN Len(s) - (e + 1) + 1 ELSE 0
        /\ \A i \in 1 .. Len(s) - (e + 1) + 1 : t[i] = s[e + 1 + i - 1]
    <3> HIDE DEF e
    <3>1. QED BY <1>1, <2>1, <2>2, SubSeqProperties
  <2>4. Len(t) = Limit /\ \A i \in 1 .. Limit : t[i] = s[e + i]
    BY <1>1, <1>3, <2>3
  <2>5. LastOf(s) = t
    BY <1>3 DEF LastOf
  <2>6. Len(s) - e = Limit
    BY <1>1
  <2> HIDE DEF t, e
  <2>7. DropsFirst(s, e)
    BY <2>3, <2>4, <2>5, <2>6 DEF Value, DropsFirst
  <2>8. QED BY <2>1, <2>7
<1>4. QED BY <1>1, <1>2, <1>3

LEMMA AppendIsValue ==
  ASSUME NEW v \in Value, NEW n \in Nat
  PROVE  /\ Append(v, n) \in Value
         /\ Len(v) \in Nat /\ Len(Append(v, n)) = Len(v) + 1
         /\ \A i \in 1 .. Len(v) : Append(v, n)[i] = v[i]
         /\ Append(v, n)[Len(v) + 1] = n
  BY DEF Value

LEMMA LastOfAppend ==
  ASSUME NEW v \in Value, NEW n \in Nat
  PROVE  /\ LastOf(Append(v, n)) \in Value
         /\ LastOf(Append(v, n)) # <<>>
         /\ LastNumber(LastOf(Append(v, n))) = n
<1> DEFINE s == Append(v, n)
           t == LastOf(s)
<1>1. /\ s \in Value /\ Len(s) = Len(v) + 1 /\ Len(v) \in Nat /\ s[Len(v) + 1] = n
  BY AppendIsValue
<1> HIDE DEF s
<1>2. PICK d \in 0 .. Len(s) :
        /\ t \in Value /\ Len(t) = Len(s) - d
        /\ d = 0 \/ Len(s) - d = Limit
        /\ \A i \in 1 .. Len(s) - d : t[i] = s[d + i]
  BY <1>1, LastOfIsTail DEF DropsFirst
<1> HIDE DEF t
<1>3. Len(t) \in 1 .. Len(s) /\ d + Len(t) = Len(v) + 1
  BY <1>1, <1>2
<1>4. t[Len(t)] = n
  BY <1>1, <1>2, <1>3
<1>5. t # <<>>
  BY <1>2, <1>3
<1>6. LastNumber(t) = n
  BY <1>4, <1>5 DEF LastNumber
<1>7. QED BY <1>2, <1>5, <1>6 DEF s, t

LEMMA AppliedValue ==
  ASSUME NEW k, NEW v \in Value, NEW n \in Nat
  PROVE  Applied(k, n, v) \in Value
  BY LastOfAppend DEF Applied, Value

\* The order of a value, and the bound on its numbers.
Kept(v, n) == InOrder(v) /\ \A i \in DOMAIN v : v[i] <= n

LEMMA AppliedKept ==
  ASSUME NEW k, NEW v \in Value, NEW n \in Nat, Kept(v, n)
  PROVE  Kept(Applied(k, n + 1, v), n + 1)
<1>1. CASE k = "update"
  <2> DEFINE s == Append(v, n + 1)
             t == LastOf(s)
  <2>1. /\ s \in Value /\ Len(s) = Len(v) + 1 /\ Len(v) \in Nat
        /\ \A i \in 1 .. Len(v) : s[i] = v[i]
        /\ s[Len(v) + 1] = n + 1
    <3>1. n + 1 \in Nat
      OBVIOUS
    <3>2. QED BY <3>1, AppendIsValue
  <2> HIDE DEF s
  <2>2. \A i \in 1 .. Len(v) : v[i] \in Nat /\ v[i] <= n
    BY DEF Kept, Value
  <2>3. \A i, j \in 1 .. Len(v) : i < j => v[i] < v[j]
    BY DEF Kept, InOrder, Value
  <2>4. \A i, j \in 1 .. Len(s) : i < j => s[i] < s[j]
    BY <2>1, <2>2, <2>3
  <2>5. \A i \in 1 .. Len(s) : s[i] <= n + 1
    BY <2>1, <2>2
  <2>6. PICK d \in 0 .. Len(s) :
          /\ t \in Value /\ Len(t) = Len(s) - d /\ Len(t) <= Limit
          /\ \A i \in 1 .. Len(s) - d : t[i] = s[d + i]
    BY <2>1, LastOfIsTail DEF DropsFirst
  <2> HIDE DEF t
  <2>7. /\ DOMAIN t = 1 .. Len(t)
        /\ \A i \in 1 .. Len(t) : d + i \in 1 .. Len(s) /\ t[i] = s[d + i]
    BY <2>1, <2>6 DEF Value
  <2>8. \A i, j \in DOMAIN t : i < j => t[i] < t[j]
    BY <2>4, <2>7
  <2>9. \A i \in DOMAIN t : t[i] <= n + 1
    BY <2>5, <2>7
  <2>10. Applied(k, n + 1, v) = t
    BY <1>1 DEF Applied, s, t
  <2>11. QED BY <2>6, <2>8, <2>9, <2>10 DEF Kept, InOrder
<1>2. CASE k \in {"put", "replace"}
  BY <1>2 DEF Applied, Kept, InOrder
<1>3. CASE k \notin {"update", "put", "replace"}
  BY <1>3 DEF Applied, Kept, InOrder
<1>4. QED BY <1>1, <1>2, <1>3

LEMMA KeptLater ==
  ASSUME NEW v \in Value, NEW n \in Nat, NEW m \in Nat, n <= m, Kept(v, n)
  PROVE  Kept(v, m)
  BY DEF Kept, Value

LEMMA LastNumberType ==
  ASSUME NEW v \in Value
  PROVE  LastNumber(v) \in Nat
  BY DEF LastNumber, Value

-----------------------------------------------------------------------------
(* Types                                                                   *)

\* Every variable keeps to its type, for any tasks, limit and operations.
THEOREM TypeInvariant == Spec => []TypeOK
<1>1. Init => TypeOK
  BY DEF Init, TypeOK, Value, Await, Operation
<1>2. TypeOK /\ [Next]_vars => TypeOK'
  <2> SUFFICES ASSUME TypeOK, [Next]_vars
               PROVE  TypeOK'
    OBVIOUS
  <2> USE DEF TypeOK
  <2>1. <<>> \in Value /\ change + 1 \in Nat
    BY DEF Value
  <2>2. ASSUME NEW a \in Actor, NEW k \in ops, Begin(a, k)
        PROVE  TypeOK'
    <3>1. k \in Operation /\ Applied(k, change + 1, <<>>) \in Value
      BY <2>1, AppliedValue
    <3>2. begun' \in 0 .. MaxChange
      BY <2>2 DEF Begin
    <3>3. pc' \in [Actor -> Await] /\ op' \in [Actor -> Operation]
      BY <2>2, <3>1 DEF Begin, Goto, Await
    <3>4. change' \in Nat /\ val' \in [Actor -> Value]
      BY <2>1, <2>2, <3>1 DEF Begin
    <3>5. clean' \in BOOLEAN /\ truth' \in Value /\ stored' \in Value
      BY <2>2 DEF Begin, Joins
    <3>6. QED BY <2>2, <3>2, <3>3, <3>4, <3>5 DEF Begin
  <2>3. ASSUME NEW a \in Actor, Acquire(a)
        PROVE  TypeOK'
    <3>1. Applied("replace", change + 1, <<>>) \in Value
      BY <2>1, AppliedValue
    <3>2. QED BY <2>1, <2>3, <3>1 DEF Acquire, Goto, Await, history
  <2>4. ASSUME NEW a \in Actor, NEW v \in Value, Got(a, v)
        PROVE  /\ change' \in Nat /\ val' \in [Actor -> Value]
               /\ pc' \in [Actor -> Await] /\ lock' \in Actor \cup {Nobody}
    <3>1. Applied("update", change + 1, v) \in Value
      BY <2>1, AppliedValue
    <3>2. QED BY <2>1, <2>4, <3>1 DEF Got, Return, Released, Goto, Await
  <2>5. ASSUME NEW a \in Actor, LookupHits(a)
        PROVE  TypeOK'
    BY <2>4, <2>5 DEF LookupHits, history
  <2>6. ASSUME NEW a \in Actor, LookupMisses(a)
        PROVE  TypeOK'
    BY <2>6 DEF LookupMisses, Goto, Await, history
  <2>7. ASSUME NEW a \in Actor, Fetch(a)
        PROVE  TypeOK'
    BY <2>7 DEF Fetch, Goto, Await, history
  <2>8. ASSUME NEW a \in Actor, Fill(a)
        PROVE  TypeOK'
    BY <2>4, <2>8 DEF Fill, Inserted, history
  <2>9. ASSUME NEW a \in Actor, Check(a)
        PROVE  TypeOK'
    BY <2>9 DEF Check, Return, Released, Goto, Await, history
  <2>10. ASSUME NEW a \in Actor, Write(a)
         PROVE  TypeOK'
    <3>1. InEffect(a) \in Value
      BY LastNumberType, AppliedValue DEF InEffect
    <3>2. QED BY <2>10, <3>1 DEF Write, Goto, Await
  <2>11. ASSUME NEW a \in Actor, Evict(a) \/ Publish(a) \/ Fail(a)
         PROVE  TypeOK'
    BY <2>11 DEF Evict, Publish, Fail, Inserted, Return, Released, Goto, Await, history
  <2>12. ASSUME NEW a \in Actor, Abandon(a)
         PROVE  TypeOK'
    BY <2>12 DEF Abandon, Dropped, Released, Goto, Await
  <2>13. ASSUME NEW a \in Actor, OrphanWrite(a)
         PROVE  TypeOK'
    <3>1. InEffect(a) \in Value
      BY LastNumberType, AppliedValue DEF InEffect
    <3>2. QED BY <2>13, <3>1 DEF OrphanWrite, Goto, Await
  <2>14. CASE Restart
    BY <2>14 DEF Restart, Await
  <2>15. CASE UNCHANGED vars
    BY <2>15 DEF vars, history
  <2>16. QED BY <2>2, <2>3, <2>5, <2>6, <2>7, <2>8, <2>9, <2>10, <2>11, <2>12, <2>13,
               <2>14, <2>15 DEF Next, ActorStep
<1>3. QED BY <1>1, <1>2, PTL DEF Spec

-----------------------------------------------------------------------------
(* The order of the changes                                                *)

\* No value anywhere, on its way to the row or the cache included, holds a
\* change that has not been made yet, or holds two out of order.
AllKept ==
  /\ Kept(db, change)
  /\ cache # Miss => Kept(cache, change)
  /\ \A a \in Actor : Kept(val[a], change)

LEMMA EmptyKept ==
  ASSUME NEW n \in Nat
  PROVE  Kept(<<>>, n) /\ <<>> \in Value
  BY DEF Kept, InOrder, Value

\* A step that changes the values only to kept ones keeps AllKept.
LEMMA AllKeptStep ==
  ASSUME TypeOK, AllKept, change' \in Nat, change <= change',
         Kept(db', change') \/ db' = db,
         cache' # Miss => Kept(cache', change') \/ cache' = cache,
         \A a \in Actor : Kept(val'[a], change') \/ val'[a] = val[a]
  PROVE  AllKept'
<1>1. Kept(db, change') /\ \A a \in Actor : Kept(val[a], change')
  BY KeptLater DEF AllKept, TypeOK
<1>2. cache # Miss => Kept(cache, change')
  BY KeptLater DEF AllKept, TypeOK
<1>3. QED BY <1>1, <1>2 DEF AllKept

LEMMA AllKeptInductive == TypeOK /\ AllKept /\ [Next]_vars => AllKept'
<1> SUFFICES ASSUME TypeOK, AllKept, [Next]_vars
             PROVE  AllKept'
  OBVIOUS
<1>1. /\ change \in Nat /\ change + 1 \in Nat /\ change <= change /\ change <= change + 1
      /\ Kept(<<>>, change) /\ Kept(<<>>, change + 1) /\ <<>> \in Value
  BY EmptyKept DEF TypeOK
<1>2. ASSUME NEW a \in Actor, NEW k \in ops, Begin(a, k)
      PROVE  AllKept'
  <2>1. Kept(Applied(k, change + 1, <<>>), change + 1)
    BY <1>1, AppliedKept
  <2>2. /\ change' \in Nat /\ change <= change'
        /\ \A b \in Actor : Kept(val'[b], change') \/ val'[b] = val[b]
    BY <1>1, <1>2, <2>1 DEF Begin, TypeOK
  <2>3. QED BY <1>2, <2>2, AllKeptStep DEF Begin
<1>3. ASSUME NEW a \in Actor, Acquire(a)
      PROVE  AllKept'
  <2>1. Kept(Applied("replace", change + 1, <<>>), change + 1)
    BY <1>1, AppliedKept
  <2>2. /\ change' \in Nat /\ change <= change'
        /\ \A b \in Actor : Kept(val'[b], change') \/ val'[b] = val[b]
    BY <1>1, <1>3, <2>1 DEF Acquire, TypeOK
  <2>3. QED BY <1>3, <2>2, AllKeptStep DEF Acquire
<1>4. ASSUME NEW a \in Actor, NEW v \in Value, Kept(v, change), Got(a, v)
      PROVE  /\ change' \in Nat /\ change <= change'
             /\ \A b \in Actor : Kept(val'[b], change') \/ val'[b] = val[b]
  <2>1. Kept(Applied("update", change + 1, v), change + 1)
    BY <1>1, <1>4, AppliedKept
  <2>2. QED BY <1>1, <1>4, <2>1 DEF Got, TypeOK
<1>5. ASSUME NEW a \in Actor, LookupHits(a)
      PROVE  AllKept'
  <2>1. cache \in Value /\ Kept(cache, change)
    BY <1>5 DEF LookupHits, AllKept, TypeOK
  <2>2. QED BY <1>4, <1>5, <2>1, AllKeptStep DEF LookupHits
<1>6. ASSUME NEW a \in Actor, Fetch(a)
      PROVE  AllKept'
  <2>1. \A b \in Actor : Kept(val'[b], change') \/ val'[b] = val[b]
    BY <1>6 DEF Fetch, AllKept, TypeOK
  <2>2. QED BY <1>1, <1>6, <2>1, AllKeptStep DEF Fetch
<1>7. ASSUME NEW a \in Actor, Fill(a)
      PROVE  AllKept'
  <2>1. val[a] \in Value /\ Kept(val[a], change)
    BY DEF AllKept, TypeOK
  <2>2. /\ change' \in Nat /\ change <= change'
        /\ \A b \in Actor : Kept(val'[b], change') \/ val'[b] = val[b]
    BY <1>4, <1>7, <2>1 DEF Fill
  <2>3. Kept(val[a], change')
    BY <1>1, <2>1, <2>2, KeptLater
  <2>4. QED BY <1>7, <2>2, <2>3, AllKeptStep DEF Fill, Inserted
<1>8. ASSUME NEW a \in Actor,
             LookupMisses(a) \/ Check(a) \/ Fail(a) \/ Abandon(a) \/ Evict(a)
      PROVE  AllKept'
  BY <1>1, <1>8, AllKeptStep DEF LookupMisses, Check, Fail, Abandon, Evict
<1>9. ASSUME NEW a \in Actor, Write(a) \/ Publish(a) \/ OrphanWrite(a)
      PROVE  AllKept'
  <2>1. Kept(val[a], change)
    BY DEF AllKept
  <2>2. QED BY <1>1, <1>9, <2>1, AllKeptStep DEF Write, Publish, OrphanWrite, Inserted
<1>10. CASE Restart
  BY <1>1, <1>10, AllKeptStep DEF Restart
<1>11. CASE UNCHANGED vars
  BY <1>11 DEF vars, AllKept
<1>12. QED BY <1>2, <1>3, <1>5, <1>6, <1>7, <1>8, <1>9, <1>10, <1>11 DEF Next, ActorStep

\* The row and the cache hold their changes in order and at most Limit of them,
\* whatever races, drops and restarts happen (append_message's drain).
THEOREM ChangesStayInOrder == Spec => []ChangesInOrder
<1>1. Init => AllKept
  BY EmptyKept DEF Init, AllKept
<1>2. AllKept => ChangesInOrder
  BY DEF AllKept, Kept, ChangesInOrder
<1>3. QED BY <1>1, <1>2, AllKeptInductive, TypeInvariant, PTL DEF Spec

-----------------------------------------------------------------------------
(* No change is lost and the cache is current while nothing races          *)

Past == Await \ {"idle", "lock", "orphan"}  \* awaits a locked operation holds the lock at

\* Where an operation may be, and that a locked one past its lock() holds it.
Placed ==
  \A a \in Actor :
    /\ pc[a] \in {"lookup", "fetch", "fill"} => op[a] \in {"get", "update"}
    /\ pc[a] = "lock" => op[a] \in Locked
    /\ pc[a] = "check" => op[a] = "forget"
    /\ pc[a] \in {"lock", "check"} => val[a] = <<>>
    /\ pc[a] \in {"write", "evict", "publish", "orphan"} => op[a] # "get"
    /\ pc[a] \in Past /\ op[a] \in Locked => lock = a

LEMMA PlacedInductive == TypeOK /\ Placed /\ [Next]_vars => Placed'
<1> SUFFICES ASSUME TypeOK, Placed, [Next]_vars
             PROVE  Placed'
  OBVIOUS
<1> USE DEF TypeOK, Placed, Past, Await, Locked
<1>1. ASSUME NEW a \in Actor, NEW k \in ops, Begin(a, k)
      PROVE  Placed'
  <2>1. k \in Operation
    OBVIOUS
  <2>2. QED BY <1>1, <2>1 DEF Begin, Goto, Busy, Operation, Unlocked, Numbered
<1>2. ASSUME NEW a \in Actor, Acquire(a)
      PROVE  Placed'
  BY <1>2 DEF Acquire, Goto
<1>3. ASSUME NEW a \in Actor, LookupHits(a) \/ Fill(a)
      PROVE  Placed'
  BY <1>3 DEF LookupHits, Fill, Got, Return, Released, Goto
<1>4. ASSUME NEW a \in Actor, LookupMisses(a) \/ Fetch(a) \/ Write(a) \/ OrphanWrite(a)
      PROVE  Placed'
  BY <1>4 DEF LookupMisses, Fetch, Write, OrphanWrite, Goto
<1>5. ASSUME NEW a \in Actor, Check(a) \/ Evict(a) \/ Publish(a) \/ Fail(a) \/ Abandon(a)
      PROVE  Placed'
  BY <1>5 DEF Check, Evict, Publish, Fail, Abandon, Dropped, Return, Released, Goto
<1>6. CASE Restart
  BY <1>6 DEF Restart
<1>7. CASE UNCHANGED vars
  BY <1>7 DEF vars
<1>8. QED BY <1>1, <1>2, <1>3, <1>4, <1>5, <1>6, <1>7 DEF Next, ActorStep

\* Two operations that are under way at once may be.
Apart(j, k, atj) == Harmless(j, k) /\ atj # "orphan"

\* What a task carries: what it read is in effect, and what it writes is one change more.
Carries(a) ==
  /\ pc[a] = "fetch" => db = truth
  /\ pc[a] \in {"fill", "publish"} => val[a] = db /\ db = truth
  /\ pc[a] \in {"write", "orphan"} => val[a] = InEffect(a)
  /\ pc[a] = "evict" => val[a] = db

\* What holds as long as nothing has raced.
Peaceful ==
  /\ db = stored
  /\ cache \in {Miss, truth}
  /\ cache = Miss /\ (\A a \in Actor : pc[a] # "evict") => db = truth
  /\ \A a \in Actor : \A b \in Actor \ {a} :
       Busy(a) /\ Busy(b) => Apart(op[a], op[b], pc[a])
  /\ \A a \in Actor : Carries(a)

RaceInv == clean => Peaceful

\* While a writes, or reads in order to write, the others wait for the lock; and
\* while a write goes on without its task nobody is at work.
LEMMA WriterIsAlone ==
  ASSUME TypeOK, Placed, Peaceful, NEW a \in Actor, pc[a] \in Past \cup {"orphan"}, op[a] # "get"
  PROVE  \A b \in Actor \ {a} : /\ pc[b] \in {"idle", "lock"}
                                /\ pc[a] = "orphan" => pc[b] = "idle"
  BY DEF TypeOK, Placed, Peaceful, Past, Await, Apart, Harmless, Busy

LEMMA AppliedValues ==
  ASSUME NEW v \in Value, NEW n \in Nat
  PROVE  /\ LastNumber(Applied("update", n, v)) = n
         /\ \A k \in {"put", "replace"} :
              Applied(k, n, v) = <<n>> /\ LastNumber(<<n>>) = n
         /\ \A k \in {"remove", "clear", "forget"} : Applied(k, n, v) = <<>>
  BY LastOfAppend DEF Applied, LastNumber

LEMMA RaceInductive == TypeOK /\ Placed /\ RaceInv /\ [Next]_vars => RaceInv'
<1> SUFFICES ASSUME TypeOK, Placed, RaceInv, [Next]_vars, clean'
             PROVE  Peaceful'
  BY DEF RaceInv
<1> USE DEF TypeOK, Busy
<1>1. CASE Restart
  BY <1>1 DEF Restart, RaceInv, Peaceful, Carries
<1>2. CASE UNCHANGED vars
  BY <1>2 DEF vars, history, Peaceful, RaceInv, Carries, InEffect
<1>3. ASSUME NEW a \in Actor, NEW k \in ops, Begin(a, k)
      PROVE  Peaceful'
  <2>1. /\ \A b \in Actor \ {a} : pc'[b] = pc[b] /\ op'[b] = op[b] /\ val'[b] = val[b]
        /\ pc[a] = "idle" /\ pc'[a] \in {"lookup", "lock", "write"} /\ op'[a] = k
        /\ db' = db /\ cache' = cache
    BY <1>3 DEF Begin, Goto
  \* As at rest, or as it was.
  <2>2. /\ db = stored' /\ cache \in {Miss, truth'} /\ truth' \in Value
        /\ cache = Miss /\ (\A b \in Actor : pc[b] # "evict") => db = truth'
        /\ \A b \in Actor \ {a} : pc[b] # "idle" =>
             pc[b] # "orphan" /\ Harmless(op[b], k) /\ truth' = truth /\ clean /\ Peaceful
    <3>1. CASE ~clean /\ OthersRest(a) /\ cache \in {Miss, db}
      BY <1>3, <3>1 DEF Begin, Joins, OthersRest
    <3>2. CASE ~(~clean /\ OthersRest(a) /\ cache \in {Miss, db})
      BY <1>3, <3>2 DEF Begin, Joins, RaceInv, Peaceful
    <3>3. QED BY <3>1, <3>2
  <2>3. pc'[a] = "write" => val'[a] = Applied(k, LastNumber(val'[a]), truth')
    <3>1. SUFFICES ASSUME pc'[a] = "write"
                   PROVE  val'[a] = Applied(k, LastNumber(val'[a]), truth')
      OBVIOUS
    <3>2. k \in {"put", "remove", "clear"}
      BY <1>3, <3>1 DEF Begin, Goto, Operation, Unlocked
    <3>3. CASE k = "put"
      <4>1. val'[a] = <<change + 1>> /\ change + 1 \in Nat /\ <<>> \in Value
        BY <1>3, <3>3 DEF Begin, Applied, Value
      <4>2. QED BY <2>2, <3>3, <4>1, AppliedValues
    <3>4. CASE k \in {"remove", "clear"}
      <4>1. val'[a] = <<>>
        BY <1>3, <3>4 DEF Begin
      <4>2. QED BY <3>4, <4>1 DEF Applied
    <3>5. QED BY <3>2, <3>3, <3>4
  <2>4. \A b, c \in Actor : b # c /\ pc'[b] # "idle" /\ pc'[c] # "idle" =>
          Apart(op'[b], op'[c], pc'[b])
    BY <2>1, <2>2 DEF Peaceful, Apart, Harmless
  <2>5. Carries(a)'
    BY <2>1, <2>3 DEF Carries, InEffect
  <2>6. ASSUME NEW b \in Actor \ {a}
        PROVE  Carries(b)'
    BY <2>1, <2>2 DEF Peaceful, Carries, InEffect
  <2>7. (\A b \in Actor : pc'[b] # "evict") => \A b \in Actor : pc[b] # "evict"
    BY <2>1
  <2>8. QED BY <2>1, <2>2, <2>4, <2>5, <2>6, <2>7 DEF Peaceful
\* The steps of an operation that goes on from a peaceful state, and leaves alone what is
\* in effect.
<1>4. ASSUME NEW a \in Actor, Peaceful, op' = op,
             db' = db, truth' = truth, stored' = stored,
             \A b \in Actor \ {a} : pc'[b] = pc[b] /\ val'[b] = val[b],
             pc'[a] = "orphan" => OthersRest(a), pc[a] # "idle",
             pc[a] # "evict" \/ cache # Miss,
             cache' \in {cache, truth},
             Carries(a)'
      PROVE  Peaceful'
  <2>1. ASSUME NEW b \in Actor \ {a}
        PROVE  Carries(b)'
    BY <1>4 DEF Peaceful, Carries, InEffect
  <2>2. cache' \in {Miss, truth'} /\ db' = stored'
    BY <1>4 DEF Peaceful
  <2>3. \A b, c \in Actor : b # c /\ pc'[b] # "idle" /\ pc'[c] # "idle" =>
          Apart(op'[b], op'[c], pc'[b])
    BY <1>4 DEF Peaceful, Apart, Harmless, OthersRest
  <2>4. cache' = Miss /\ (\A b \in Actor : pc'[b] # "evict") => db' = truth'
    BY <1>4 DEF Peaceful
  <2>5. QED BY <1>4, <2>1, <2>2, <2>3, <2>4 DEF Peaceful
<1>5. ASSUME NEW a \in Actor, Acquire(a)
      PROVE  Peaceful'
  <2>1. Peaceful
    BY <1>5 DEF Acquire, RaceInv, history
  <2>2. op[a] \in Locked /\ change + 1 \in Nat /\ <<>> \in Value
    BY <1>5 DEF Acquire, Placed, Value
  <2>3. pc'[a] = "write" => val'[a] = Applied(op[a], LastNumber(val'[a]), truth)
    <3>1. SUFFICES ASSUME pc'[a] = "write"
                   PROVE  val'[a] = Applied(op[a], LastNumber(val'[a]), truth)
      OBVIOUS
    <3>2. op[a] = "replace"
      BY <1>5, <3>1 DEF Acquire, Goto
    <3>3. val'[a] = Applied("replace", change + 1, <<>>)
      BY <1>5, <3>2 DEF Acquire
    <3>4. val'[a] = <<change + 1>> /\ LastNumber(<<change + 1>>) = change + 1
      BY <2>2, <3>3, AppliedValues
    <3>5. Applied("replace", change + 1, truth) = <<change + 1>>
      BY <2>2, AppliedValues
    <3>6. QED BY <3>2, <3>4, <3>5
  <2>4. Carries(a)'
    BY <1>5, <2>3 DEF Acquire, Goto, Carries, InEffect, history
  <2>5. QED BY <1>4, <1>5, <2>1, <2>4 DEF Acquire, Goto, history
\* An update that has read what is in effect writes the next value.
<1>6. ASSUME NEW a \in Actor, NEW v, Got(a, v), op[a] = "update" => v = truth,
             pc[a] \in {"lookup", "fill"}, op' = op, db' = db, truth' = truth
      PROVE  /\ \A b \in Actor \ {a} : pc'[b] = pc[b] /\ val'[b] = val[b]
             /\ pc'[a] \in {"idle", "write"}
             /\ Carries(a)'
  <2>1. change + 1 \in Nat
    OBVIOUS
  <2>2. LastNumber(Applied("update", change + 1, truth)) = change + 1
    BY <2>1, AppliedValues
  <2>3. CASE op[a] = "update"
    BY <1>6, <2>2, <2>3 DEF Got, Goto, Carries, InEffect
  <2>4. CASE op[a] # "update"
    BY <1>6, <2>4 DEF Got, Return, Goto, Carries
  <2>5. QED BY <2>3, <2>4
<1>7. ASSUME NEW a \in Actor, LookupHits(a)
      PROVE  Peaceful'
  <2>1. Peaceful /\ pc[a] = "lookup" /\ cache = truth
    BY <1>7 DEF LookupHits, RaceInv, history, Peaceful
  <2>2. QED BY <1>4, <1>6, <1>7, <2>1 DEF LookupHits, history
<1>8. ASSUME NEW a \in Actor, LookupMisses(a)
      PROVE  Peaceful'
  <2>1. Peaceful /\ pc[a] = "lookup" /\ cache = Miss
    BY <1>8 DEF LookupMisses, RaceInv, history
  \* A writer between its write and its eviction has no reader beside it.
  <2>2. \A b \in Actor : pc[b] # "evict"
    <3>1. SUFFICES ASSUME NEW b \in Actor, pc[b] = "evict"
                   PROVE  FALSE
      OBVIOUS
    <3>2. b # a /\ op[b] # "get"
      BY <2>1, <3>1 DEF Placed
    <3>3. QED BY <2>1, <3>1, <3>2, WriterIsAlone DEF Past, Await
  <2>3. Carries(a)'
    BY <1>8, <2>1, <2>2 DEF LookupMisses, Goto, Peaceful, Carries, history
  <2>4. QED BY <1>4, <1>8, <2>1, <2>3 DEF LookupMisses, Goto, history
<1>9. ASSUME NEW a \in Actor, Fetch(a) \/ Fail(a)
      PROVE  Peaceful'
  <2>1. Peaceful /\ pc[a] \in {"fetch", "check", "write"}
    BY <1>9 DEF Fetch, Fail, RaceInv, history
  <2>2. Carries(a)'
    BY <1>9, <2>1 DEF Fetch, Fail, Return, Goto, Peaceful, Carries, history
  <2>3. QED BY <1>4, <1>9, <2>1, <2>2 DEF Fetch, Fail, Return, Goto, history
<1>10. ASSUME NEW a \in Actor, Fill(a)
      PROVE  Peaceful'
  <2>1. Peaceful /\ pc[a] = "fill"
    BY <1>10 DEF Fill, RaceInv, history
  <2>2. val[a] = truth
    BY <2>1 DEF Peaceful, Carries
  <2>3. cache' \in {cache, truth}
    BY <1>10, <2>2 DEF Fill, Inserted
  <2>4. QED BY <1>4, <1>6, <1>10, <2>1, <2>2, <2>3 DEF Fill, history
<1>11. ASSUME NEW a \in Actor, Check(a)
       PROVE  Peaceful'
  <2>1. Peaceful /\ pc[a] = "check" /\ op[a] = "forget" /\ val[a] = <<>> /\ val' = val
    BY <1>11 DEF Check, RaceInv, Placed, history
  <2>2. val'[a] = Applied(op[a], LastNumber(val'[a]), truth)
    BY <2>1 DEF Applied
  <2>3. Carries(a)'
    BY <1>11, <2>1, <2>2 DEF Check, Return, Goto, Carries, InEffect, history
  <2>4. QED BY <1>4, <1>11, <2>1, <2>3 DEF Check, Return, Goto, history
\* A change is written on what is in effect, and comes into effect with its eviction.
<1>12. ASSUME NEW a \in Actor, Write(a)
       PROVE  Peaceful'
  <2>1. Peaceful /\ pc[a] = "write" /\ op[a] # "get"
    BY <1>12 DEF Write, RaceInv, Placed
  <2>2. \A b \in Actor \ {a} : pc[b] \in {"idle", "lock"}
    BY <2>1, WriterIsAlone DEF Past, Await
  <2>3. db' = val[a] /\ stored' = val[a]
    BY <1>12, <2>1 DEF Write, Peaceful, Carries
  <2>4. pc' = [pc EXCEPT ![a] = "evict"] /\ UNCHANGED <<op, val, truth, cache>>
    BY <1>12 DEF Write, Goto
  <2>5. pc'[a] = "evict" /\ \A b \in Actor \ {a} : pc'[b] \in {"idle", "lock"}
    BY <2>2, <2>4
  <2>6. \A b, c \in Actor : b # c /\ pc'[b] # "idle" /\ pc'[c] # "idle" =>
          Apart(op'[b], op'[c], pc'[b])
    BY <2>1, <2>4 DEF Peaceful, Apart
  <2>7. \A b \in Actor : Carries(b)'
    BY <2>3, <2>4, <2>5 DEF Carries
  <2>8. cache' \in {Miss, truth'}
    BY <2>1, <2>4 DEF Peaceful
  <2>9. QED BY <2>3, <2>5, <2>6, <2>7, <2>8 DEF Peaceful
<1>13. ASSUME NEW a \in Actor, Evict(a)
       PROVE  Peaceful'
  <2>1. Peaceful /\ pc[a] = "evict" /\ op[a] # "get"
    BY <1>13 DEF Evict, RaceInv, Placed
  <2>2. \A b \in Actor \ {a} : pc[b] \in {"idle", "lock"}
    BY <2>1, WriterIsAlone DEF Past, Await
  <2>3. cache' = Miss /\ truth' = db /\ stored' = db /\ db' = db /\ UNCHANGED <<op, val>>
    BY <1>13, <2>1 DEF Evict, Peaceful
  <2>4. /\ \A b \in Actor \ {a} : pc'[b] = pc[b]
        /\ pc'[a] \in {"idle", "publish"}
    BY <1>13 DEF Evict, Return, Goto
  <2>5. \A b \in Actor : Carries(b)'
    BY <2>1, <2>2, <2>3, <2>4 DEF Carries, Peaceful
  <2>6. \A b, c \in Actor : b # c /\ pc'[b] # "idle" /\ pc'[c] # "idle" =>
          Apart(op'[b], op'[c], pc'[b])
    BY <2>1, <2>2, <2>3, <2>4 DEF Peaceful, Apart
  <2>7. QED BY <2>3, <2>5, <2>6 DEF Peaceful
<1>14. ASSUME NEW a \in Actor, Publish(a)
       PROVE  Peaceful'
  <2>1. Peaceful /\ pc[a] = "publish" /\ val[a] = truth
    BY <1>14 DEF Publish, RaceInv, history, Peaceful, Carries
  <2>2. Carries(a)' /\ cache' \in {cache, truth}
    BY <1>14, <2>1 DEF Publish, Inserted, Return, Goto, Carries
  <2>3. QED BY <1>4, <1>14, <2>1, <2>2 DEF Publish, Return, Goto, history
\* A dropped task leaves the row ahead of the cache, or a write that goes on.
<1>15. ASSUME NEW a \in Actor, Abandon(a)
       PROVE  Peaceful'
  <2>1. Peaceful /\ pc[a] \notin {"idle", "orphan"} /\ UNCHANGED <<db, cache, op, val, stored>>
    BY <1>15 DEF Abandon, Dropped, RaceInv
  <2>2. /\ pc'[a] = IF pc[a] = "write" THEN "orphan" ELSE "idle"
        /\ \A b \in Actor \ {a} : pc'[b] = pc[b]
        /\ pc'[a] = "orphan" => OthersRest(a)
    BY <1>15 DEF Abandon, Dropped, Goto
  <2>3. CASE pc[a] = "evict" /\ cache = Miss
    <3>1. truth' = db /\ pc'[a] = "idle"
      BY <1>15, <2>1, <2>2, <2>3 DEF Abandon, Dropped, Peaceful
    <3>2. \A b \in Actor \ {a} : pc'[b] \in {"idle", "lock"}
      BY <2>1, <2>2, <2>3, WriterIsAlone DEF Past, Await, Placed
    <3>3. \A b \in Actor : Carries(b)'
      BY <3>1, <3>2 DEF Carries
    <3>4. \A b, c \in Actor : b # c /\ pc'[b] # "idle" /\ pc'[c] # "idle" =>
            Apart(op'[b], op'[c], pc'[b])
      BY <2>1, <2>2, <3>1, <3>2 DEF Peaceful, Apart
    <3>5. QED BY <2>1, <2>3, <3>1, <3>3, <3>4 DEF Peaceful
  <2>4. CASE ~(pc[a] = "evict" /\ cache = Miss)
    <3>1. truth' = truth
      BY <1>15, <2>4 DEF Abandon, Dropped
    <3>2. Carries(a)'
      BY <2>1, <2>2, <3>1 DEF Carries, InEffect, Peaceful
    <3>3. QED BY <1>4, <2>1, <2>2, <2>4, <3>1, <3>2
  <2>5. QED BY <2>3, <2>4
\* The write of a dropped task lands while nobody is at work.
<1>16. ASSUME NEW a \in Actor, OrphanWrite(a)
       PROVE  Peaceful'
  <2>1. Peaceful /\ pc[a] = "orphan" /\ op[a] # "get"
    BY <1>16 DEF OrphanWrite, RaceInv, Placed
  <2>2. \A b \in Actor : pc'[b] = "idle"
    BY <1>16, <2>1, WriterIsAlone DEF OrphanWrite, Goto
  <2>3. val[a] = InEffect(a) /\ cache' = cache
    BY <1>16, <2>1 DEF OrphanWrite, Peaceful, Carries
  <2>4. \A b \in Actor : Carries(b)'
    BY <2>2 DEF Carries
  <2>5. \A b \in Actor : pc[b] # "evict"
    BY <2>1, WriterIsAlone
  <2>6. /\ db' = stored' /\ cache' \in {Miss, truth'}
        /\ cache' = Miss => db' = truth'
    BY <1>16, <2>1, <2>3, <2>5 DEF OrphanWrite, Peaceful
  <2>7. QED BY <2>2, <2>4, <2>6 DEF Peaceful
<1>17. QED BY <1>1, <1>2, <1>3, <1>5, <1>7, <1>8, <1>9, <1>10, <1>11, <1>12, <1>13, <1>14,
              <1>15, <1>16 DEF Next, ActorStep

LEMMA RaceInvariant == Spec => [](Placed /\ RaceInv)
<1>1. Init => Placed /\ RaceInv
  BY DEF Init, Placed, RaceInv, Peaceful, Carries, Past, Busy
<1>2. QED BY <1>1, PlacedInductive, RaceInductive, TypeInvariant, PTL DEF Spec

\* While only reads, or operations under the mutation lock, overlap, every change is
\* written on top of all changes in effect, also if tasks are dropped at any await.
THEOREM NoChangeIsLost == Spec => []NoLostChange
<1>1. RaceInv => NoLostChange
  BY DEF RaceInv, Peaceful, NoLostChange
<1>2. QED BY <1>1, RaceInvariant, PTL

\* And readers get the changes in effect, but between a write and its eviction.
THEOREM CacheStaysCurrent == Spec => []CacheIsCurrent
<1>1. RaceInv => CacheIsCurrent
  BY DEF RaceInv, Peaceful, CacheIsCurrent
<1>2. QED BY <1>1, RaceInvariant, PTL
=============================================================================
