-------------------------- MODULE MapBoundedProofs --------------------------
(***************************************************************************)
(* Theorems about MapBounded for every number of items and threads, in     *)
(* builds that unwind and in builds that abort.                            *)
(*                                                                         *)
(* The invariant Inv says what each worker's state means for its item      *)
(* (WorkersInv), what the caller's position means for the workers          *)
(* (CallerInv), and who has an item that left the queue (Handed).  Results *)
(* adds where the results are on their way to the caller.                  *)
(***************************************************************************)
EXTENDS MapBounded, FiniteSetTheorems, WellFoundedInduction, TLAPS

\* A worker has an item: it works on it, or has pushed its result.
Has(w, i) == item[w] = i \/ \E k \in 1..Len(results[w]) : results[w][k] = i

\* What has left the queue has exactly one holder, what is in it has none.
Handed ==
  \A i \in Items :
    IF i < next
    THEN \E w \in Workers : Has(w, i) /\ \A v \in Workers : Has(v, i) => v = w
    ELSE \A w \in Workers : ~Has(w, i)

\* Workers are born in order, hold an item exactly while they work on it or
\* were torn from it, and return only when the queue is empty.
WorkersInv ==
  \A w \in Workers :
    /\ worker[w] = "unborn" <=> w > spawned
    /\ worker[w] \in {"working", "panicked"} => item[w] \in Items
    /\ worker[w] \in {"unborn", "idle", "returned"} => item[w] = 0
    /\ worker[w] = "returned" => next = N + 1

\* What the caller knows at each point of map_bounded.
CallerInv ==
  /\ N = 0 => caller = "ok"
  /\ spawned = 0 => next = 1
  /\ joined <= spawned
  /\ \A w \in Workers : w <= joined => worker[w] = "returned"
  /\ caller = "joining" => spawned > 0
  /\ caller = "ok" /\ N # 0 => spawned > 0 /\ joined = spawned
  /\ caller = "err" => spawned = 0
  /\ caller \in {"panic", "abort"} => \A w \in Workers : worker[w] \in Ended
  /\ (\E w \in Workers : worker[w] = "killed") => caller = "abort"

Inv == TypeOK /\ WorkersInv /\ CallerInv /\ Handed

-----------------------------------------------------------------------------
\* The number of threads is that of the clamp, and there is one if there is an
\* item.
LEMMA ThreadCountType ==
  /\ ThreadCount \in Nat
  /\ N # 0 => ThreadCount \in Nat \ {0}
  /\ Workers \subseteq 1..ThreadCount
  /\ N # 0 => Workers = 1..ThreadCount
BY MapBoundedAssumption DEF ThreadCount, Workers

\* Nothing has happened when the call begins.
LEMMA InvInit == Init => Inv
<1> SUFFICES ASSUME Init PROVE Inv
  OBVIOUS
<1> USE MapBoundedAssumption, ThreadCountType DEF Init
<1>1. TypeOK
  BY DEF TypeOK, Items, Over
<1>2. WorkersInv
  BY DEF WorkersInv
<1>3. CallerInv
  BY DEF CallerInv
<1>4. Handed
  BY DEF Handed, Has, Items
<1> QED BY <1>1, <1>2, <1>3, <1>4 DEF Inv

\* When the call is over every worker has ended.
LEMMA OverEnded == Inv => NoneLeftRunning
<1> SUFFICES ASSUME Inv, caller \in Over, NEW w \in Workers PROVE worker[w] \in Ended
  BY DEF NoneLeftRunning
<1> USE MapBoundedAssumption, ThreadCountType DEF Inv, TypeOK, WorkersInv, CallerInv, Ended
<1>1. w \in 1..ThreadCount /\ N # 0
  BY DEF Workers
<1>2. CASE caller = "ok"
  <2>1. w <= joined \/ w > spawned
    BY <1>1, <1>2
  <2> QED BY <2>1
<1>3. CASE caller = "err"
  BY <1>1, <1>3
<1>4. CASE caller \in {"panic", "abort"}
  BY <1>4
<1> QED BY <1>2, <1>3, <1>4 DEF Over

-----------------------------------------------------------------------------
(* The steps of the caller leave the queue and the items alone. *)

\* A step that changes neither the items nor the results hands nothing over.
LEMMA HandedStays ==
  ASSUME Handed, UNCHANGED <<next, item, results>>
  PROVE  Handed'
BY DEF Handed, Has

\* The caller's steps keep the invariant.
LEMMA CallerStep == Inv /\ Caller => Inv'
<1> SUFFICES ASSUME Inv, Caller PROVE Inv'
  OBVIOUS
<1> USE MapBoundedAssumption, ThreadCountType
<1>0. Handed'
  <2>1. UNCHANGED <<next, item, results>>
    BY DEF Caller, Spawn, SpawnFails, AllSpawned, Join, JoinPanics, Finish
  <2> QED BY <2>1, HandedStays DEF Inv
<1>1. CASE Spawn
  <2> USE <1>1 DEF Inv, Spawn
  <2>1. N # 0 /\ spawned + 1 \in Workers
    BY DEF TypeOK, CallerInv, Over
  <2>2. TypeOK'
    BY <2>1 DEF TypeOK
  <2>3. /\ worker'[spawned + 1] = "idle"
        /\ \A w \in Workers : w # spawned + 1 => worker'[w] = worker[w]
    BY <2>1 DEF TypeOK
  <2>4. WorkersInv'
    BY <2>1, <2>3 DEF TypeOK, WorkersInv
  <2>5. CallerInv'
    BY <2>1, <2>3 DEF TypeOK, CallerInv, WorkersInv
  <2> QED BY <1>0, <2>2, <2>4, <2>5
<1>2. CASE SpawnFails \/ AllSpawned
  <2> USE <1>2 DEF Inv, SpawnFails, AllSpawned
  <2>1. TypeOK'
    BY DEF TypeOK, Over
  <2>2. WorkersInv'
    BY DEF WorkersInv
  <2>3. CallerInv'
    BY DEF TypeOK, CallerInv, WorkersInv
  <2> QED BY <1>0, <2>1, <2>2, <2>3
<1>3. CASE Join
  <2> USE <1>3 DEF Inv, Join
  <2>1. N # 0 /\ joined + 1 \in Workers
    BY DEF TypeOK, CallerInv
  <2>2. TypeOK'
    <3>1. indexed \in Seq(Items) /\ results[joined + 1] \in Seq(Items)
      BY <2>1 DEF TypeOK
    <3>2. indexed' \in Seq(Items)
      BY <3>1
    <3>3. joined' \in 0..ThreadCount
      BY DEF TypeOK
    <3> QED BY <3>2, <3>3 DEF TypeOK
  <2>3. WorkersInv'
    BY DEF WorkersInv
  <2>4. CallerInv'
    <3>1. ASSUME NEW w \in Workers, w <= joined' PROVE worker'[w] = "returned"
      <4>1. w <= joined \/ w = joined + 1
        BY <2>1, <3>1 DEF TypeOK
      <4> QED BY <4>1 DEF CallerInv
    <3>2. joined' <= spawned' /\ caller' = "joining"
      BY DEF TypeOK
    <3>3. UNCHANGED <<next, worker, spawned>>
      OBVIOUS
    <3> QED BY <2>1, <3>1, <3>2, <3>3 DEF CallerInv
  <2> QED BY <1>0, <2>2, <2>3, <2>4
<1>4. CASE JoinPanics \/ Finish
  <2> USE <1>4 DEF Inv, JoinPanics, Finish
  <2>1. TypeOK'
    BY DEF TypeOK, Over
  <2>2. WorkersInv'
    BY DEF WorkersInv
  <2>3. CallerInv'
    BY DEF TypeOK, CallerInv
  <2> QED BY <1>0, <2>1, <2>2, <2>3
<1> QED BY <1>1, <1>2, <1>3, <1>4 DEF Caller

-----------------------------------------------------------------------------
(* The steps of a worker *)

\* A worker that runs has been spawned, and the call is not over.
LEMMA RunningIsEarly ==
  ASSUME Inv, NEW w \in Workers, worker[w] \in {"idle", "working"}
  PROVE  N # 0 /\ caller \in {"spawning", "joining"} /\ spawned > 0 /\ joined < w
<1>1. caller \notin Over
  BY OverEnded DEF NoneLeftRunning, Ended
<1> QED
  BY <1>1, MapBoundedAssumption, ThreadCountType
     DEF Inv, TypeOK, WorkersInv, CallerInv, Workers

\* Taking an item hands it to this worker alone.
LEMMA TakeItemStep ==
  ASSUME Inv, NEW w \in Workers, TakeItem(w)
  PROVE  Inv'
<1> USE MapBoundedAssumption, ThreadCountType, RunningIsEarly DEF Inv, TakeItem
<1>1. TypeOK'
  BY DEF TypeOK, Items
<1>2. /\ worker'[w] = "working" /\ item'[w] = next
      /\ \A v \in Workers : v # w => worker'[v] = worker[v] /\ item'[v] = item[v]
  BY DEF TypeOK
<1>3. next \in Items /\ next < N + 1
  BY DEF TypeOK, Items
<1>4. WorkersInv'
  BY <1>2, <1>3 DEF WorkersInv, TypeOK
<1>5. CallerInv'
  <2>1. /\ worker[w] = "idle" /\ caller' = caller /\ spawned' = spawned /\ joined' = joined
        /\ N # 0 /\ caller \in {"spawning", "joining"} /\ spawned > 0 /\ joined < w
    OBVIOUS
  <2>2. \A v \in Workers : worker[v] = "returned" => worker'[v] = "returned"
    BY <1>2, <2>1
  <2>3. \A v \in Workers : worker'[v] # "killed"
    BY <1>2, <2>1 DEF CallerInv
  <2> QED BY <2>1, <2>2, <2>3 DEF CallerInv, TypeOK
<1>6. \A v \in Workers, i \in Items : Has(v, i)' <=> (Has(v, i) \/ (v = w /\ i = next))
  <2>1. item[w] = 0
    BY DEF WorkersInv
  <2> QED BY <1>2, <2>1 DEF Has, Items
<1>7. next \in Nat /\ next' = next + 1
  BY DEF TypeOK
<1>8. Handed'
  <2> SUFFICES ASSUME NEW i \in Items
               PROVE IF i < next'
                     THEN \E x \in Workers : Has(x, i)' /\ \A v \in Workers : Has(v, i)' => v = x
                     ELSE \A x \in Workers : ~Has(x, i)'
    BY DEF Handed
  <2>1. CASE i < next
    BY <1>6, <1>7, <2>1 DEF Handed, Items
  <2>2. CASE i = next
    BY <1>6, <1>7, <2>2 DEF Handed, Items
  <2>3. CASE i > next
    BY <1>6, <1>7, <2>3 DEF Handed, Items
  <2> QED BY <1>7, <2>1, <2>2, <2>3 DEF Items
<1> QED BY <1>1, <1>4, <1>5, <1>8

\* A pushed result keeps its item with the worker.
LEMMA PushStep ==
  ASSUME Inv, NEW w \in Workers, Push(w)
  PROVE  Inv'
<1> USE MapBoundedAssumption, ThreadCountType, RunningIsEarly DEF Inv, Push
<1>0. item[w] \in Items /\ results[w] \in Seq(Items)
  BY DEF WorkersInv, TypeOK
<1>1. TypeOK'
  BY <1>0 DEF TypeOK
<1>2. /\ worker'[w] = "idle" /\ item'[w] = 0 /\ results'[w] = Append(results[w], item[w])
      /\ \A v \in Workers : v # w => /\ worker'[v] = worker[v] /\ item'[v] = item[v]
                                     /\ results'[v] = results[v]
  BY DEF TypeOK
<1>3. WorkersInv'
  BY <1>2 DEF WorkersInv
<1>4. CallerInv'
  BY <1>2 DEF CallerInv, TypeOK
<1>5. ASSUME NEW i \in Items
      PROVE (\E k \in 1..Len(results'[w]) : results'[w][k] = i) <=> Has(w, i)
  <2>1. /\ Len(results'[w]) = Len(results[w]) + 1 /\ Len(results[w]) \in Nat
        /\ results'[w][Len(results[w]) + 1] = item[w]
        /\ \A k \in 1..Len(results[w]) : results'[w][k] = results[w][k]
    BY <1>0, <1>2
  <2>2. \A k \in 1..(Len(results[w]) + 1) :
          k \in 1..Len(results[w]) \/ k = Len(results[w]) + 1
    BY <2>1
  <2> QED BY <2>1, <2>2 DEF Has
<1>6. \A v \in Workers, i \in Items : Has(v, i)' <=> Has(v, i)
  BY <1>2, <1>5 DEF Has, Items
<1>7. Handed'
  BY <1>6 DEF Handed
<1> QED BY <1>1, <1>3, <1>4, <1>7

\* Returning and panicking leave the items where they are.
LEMMA EndStep ==
  ASSUME Inv, NEW w \in Workers, Return(w) \/ PanicIn(w)
  PROVE  Inv'
<1> USE MapBoundedAssumption, ThreadCountType, RunningIsEarly
<1>0. Handed'
  BY HandedStays DEF Inv, Return, PanicIn
<1>1. CASE Return(w)
  <2> USE <1>1 DEF Inv, Return
  <2>1. TypeOK'
    BY DEF TypeOK
  <2>2. worker'[w] = "returned" /\ \A v \in Workers : v # w => worker'[v] = worker[v]
    BY DEF TypeOK
  <2>3. WorkersInv'
    BY <2>2 DEF WorkersInv, TypeOK
  <2>4. CallerInv'
    BY <2>2 DEF CallerInv, TypeOK
  <2> QED BY <1>0, <2>1, <2>3, <2>4
<1>2. CASE PanicIn(w) /\ worker' = [worker EXCEPT ![w] = "panicked"] /\ UNCHANGED caller
  <2> USE <1>2 DEF Inv, PanicIn
  <2>1. TypeOK'
    BY DEF TypeOK
  <2>2. worker'[w] = "panicked" /\ \A v \in Workers : v # w => worker'[v] = worker[v]
    BY DEF TypeOK
  <2>3. WorkersInv'
    BY <2>2 DEF WorkersInv, TypeOK
  <2>4. CallerInv'
    BY <2>2 DEF CallerInv, TypeOK
  <2> QED BY <1>0, <2>1, <2>3, <2>4
<1>3. CASE /\ PanicIn(w) /\ caller' = "abort"
           /\ worker' = [v \in Workers |-> IF worker[v] \in Ended THEN worker[v] ELSE "killed"]
  <2> USE <1>3 DEF Inv, PanicIn
  <2>1. TypeOK'
    BY DEF TypeOK, Over, Ended
  <2>2. \A v \in Workers : worker'[v] = IF worker[v] \in Ended THEN worker[v] ELSE "killed"
    BY DEF TypeOK
  <2>3. WorkersInv'
    BY <2>2 DEF WorkersInv, TypeOK, Ended
  <2>4. CallerInv'
    BY <2>2 DEF CallerInv, TypeOK, Ended
  <2> QED BY <1>0, <2>1, <2>3, <2>4
<1> QED BY <1>1, <1>2, <1>3 DEF PanicIn

\* No step breaks the invariant.
LEMMA InvStep == Inv /\ [Next]_vars => Inv'
<1> SUFFICES ASSUME Inv, [Next]_vars PROVE Inv'
  OBVIOUS
<1>1. CASE UNCHANGED vars
  BY <1>1 DEF vars, Inv, TypeOK, WorkersInv, CallerInv, Handed, Has
<1>2. CASE Caller
  BY <1>2, CallerStep
<1>3. ASSUME NEW w \in Workers, Worker(w) PROVE Inv'
  BY <1>3, TakeItemStep, PushStep, EndStep DEF Worker
<1> QED BY <1>1, <1>2, <1>3 DEF Next

\* The inductive invariant holds throughout.
LEMMA InvAlways == Spec => []Inv
BY InvInit, InvStep, PTL DEF Spec

-----------------------------------------------------------------------------
(* The results *)

\* A worker has returned from the work on an item.
Pushed(w, i) == \E k \in 1..Len(results[w]) : results[w][k] = i

\* No worker has a result twice, or one of the item it is at.
Distinct ==
  \A w \in Workers :
    /\ worker[w] = "unborn" => results[w] = <<>>
    /\ \A j \in 1..Len(results[w]) :
         /\ results[w][j] # item[w]
         /\ \A k \in 1..Len(results[w]) : results[w][j] = results[w][k] => j = k

\* The caller has collected what the workers it has joined pushed, each once.
Collected ==
  /\ \A j, k \in 1..Len(indexed) : indexed[j] = indexed[k] => j = k
  /\ \A i \in Items :
       (\E k \in 1..Len(indexed) : indexed[k] = i)
         <=> (\E w \in Workers : w <= joined /\ Pushed(w, i))

Results == Distinct /\ Collected /\ InputOrder

\* Of any numbers there is a least one.
LEMMA Least ==
  ASSUME NEW S, S \subseteq Nat, S # {}
  PROVE  \E n \in S : \A m \in S : n <= m
<1>1. PICK n \in S : \A m \in S : <<m, n>> \notin OpToRel(<, Nat)
  BY NatLessThanWellFounded, WFMin
<1>2. ASSUME NEW m \in S PROVE n <= m
  <2>1. ~(m < n)
    BY <1>1 DEF OpToRel
  <2> QED BY <2>1
<1> QED BY <1>2

\* An increasing map of the items to the items moves none.
LEMMA Increasing ==
  ASSUME NEW f \in [Items -> Items],
         \A i, j \in Items : i < j => f[i] < f[j]
  PROVE  \A i \in Items : f[i] = i
<1> USE MapBoundedAssumption DEF Items
<1>1. \A i \in Items : f[i] >= i
  <2> DEFINE low == {i \in Items : f[i] < i}
  <2> SUFFICES ASSUME low # {} PROVE FALSE
    OBVIOUS
  <2>1. PICK n \in low : \A m \in low : n <= m
    <3>1. low \subseteq Nat
      OBVIOUS
    <3> QED BY <3>1, Least
  <2>2. n \in Items /\ f[n] \in Items /\ f[n] < n
    OBVIOUS
  <2>3. f[f[n]] < f[n]
    BY <2>2
  <2>4. f[n] \in low
    BY <2>2, <2>3
  <2> QED BY <2>1, <2>2, <2>4
<1>2. \A i \in Items : f[i] <= i
  <2> DEFINE high == {n \in Nat : \E i \in Items : f[i] > i /\ n = N - i}
  <2>1. ASSUME NEW i \in Items, f[i] > i PROVE N - i \in high
    BY <2>1
  <2> SUFFICES ASSUME high # {} PROVE FALSE
    <3>1. ASSUME NEW i \in Items, high = {} PROVE f[i] <= i
      <4>1. ~(f[i] > i)
        BY <2>1, <3>1
      <4>2. f[i] \in Items /\ i \in Items
        OBVIOUS
      <4>3. f[i] \in Int /\ i \in Int
        BY <4>2
      <4> QED BY <4>1, <4>3
    <3> QED BY <3>1
  <2>2. PICK n \in high : \A m \in high : n <= m
    <3>1. high \subseteq Nat
      OBVIOUS
    <3> QED BY <3>1, Least
  <2>3. PICK i \in Items : n = N - i /\ f[i] > i
    OBVIOUS
  <2>4. f[i] \in Items /\ f[f[i]] > f[i]
    BY <2>3
  <2>5. N - f[i] \in high
    BY <2>1, <2>4
  <2>6. N - i <= N - f[i]
    BY <2>2, <2>3, <2>5
  <2> QED BY <2>3, <2>4, <2>6
<1> QED BY <1>1, <1>2

\* sort_unstable_by_key returns the items in order, if it got each one once.
LEMMA SortedOrder ==
  ASSUME NEW s \in Seq(Items),
         \A j, k \in 1..Len(s) : s[j] = s[k] => j = k,
         \A i \in Items : \E k \in 1..Len(s) : s[k] = i
  PROVE  Sorted(s) = [i \in Items |-> i]
<1> USE MapBoundedAssumption
<1>1. Len(s) = N
  <2>1. IsFiniteSet(Items) /\ Cardinality(Items) = N
    BY FS_Interval DEF Items
  <2>2. IsFiniteSet(1..Len(s)) /\ Cardinality(1..Len(s)) = Len(s)
    <3>1. 1 \in Int /\ Len(s) \in Int /\ Len(s) >= 0
      OBVIOUS
    <3>2. /\ IsFiniteSet(1..Len(s))
          /\ Cardinality(1..Len(s)) = IF 1 > Len(s) THEN 0 ELSE Len(s) - 1 + 1
      BY <3>1, FS_Interval
    <3> QED BY <3>1, <3>2
  <2>3. s \in Bijection(1..Len(s), Items)
    <3>1. s \in [1..Len(s) -> Items]
      OBVIOUS
    <3> QED BY <3>1 DEF Bijection, Injection, Surjection, IsInjective
  <2> QED BY <2>1, <2>2, <2>3, FS_Bijection DEF ExistsBijection
<1>2. s \in [Items -> Items]
  <2>1. s \in [1..Len(s) -> Items]
    OBVIOUS
  <2> QED BY <1>1, <2>1 DEF Items
<1> DEFINE Orders(p) == \A i, j \in Items : i < j => p[i] # p[j] /\ s[p[i]] <= s[p[j]]
           order == CHOOSE p \in [Items -> Items] : Orders(p)
<1>3. \E p \in [Items -> Items] : Orders(p)
  <2> DEFINE inverse == [i \in Items |-> CHOOSE k \in Items : s[k] = i]
  <2>1. \A i \in Items : inverse[i] \in Items /\ s[inverse[i]] = i
    BY <1>1 DEF Items
  <2>2. inverse \in [Items -> Items]
    BY <2>1
  <2> HIDE DEF inverse
  <2>3. Orders(inverse)
    <3> SUFFICES ASSUME NEW i \in Items, NEW j \in Items, i < j
                 PROVE  inverse[i] # inverse[j] /\ s[inverse[i]] <= s[inverse[j]]
      OBVIOUS
    <3>1. i \in Int /\ j \in Int
      BY DEF Items
    <3>2. s[inverse[i]] = i /\ s[inverse[j]] = j
      BY <2>1
    <3> QED BY <3>1, <3>2
  <2> QED BY <2>2, <2>3
<1>4. order \in [Items -> Items] /\ Orders(order)
  BY <1>3
<1>5. Sorted(s) = [i \in Items |-> s[order[i]]]
  BY <1>1 DEF Sorted, Items
<1> HIDE DEF order
<1>6. [i \in Items |-> s[order[i]]] \in [Items -> Items]
  BY <1>2, <1>4
<1>7. ASSUME NEW i \in Items, NEW j \in Items, i < j
      PROVE  s[order[i]] < s[order[j]]
  <2>1. order[i] \in 1..Len(s) /\ order[j] \in 1..Len(s) /\ order[i] # order[j]
    BY <1>1, <1>4, <1>7 DEF Items
  <2>2. s[order[i]] <= s[order[j]] /\ s[order[i]] # s[order[j]]
    BY <1>4, <1>7, <2>1
  <2>3. s[order[i]] \in Int /\ s[order[j]] \in Int
    <3>1. s[order[i]] \in Items /\ s[order[j]] \in Items
      <4>1. order[i] \in Items /\ order[j] \in Items
        BY ONLY <1>4, i \in Items, j \in Items
      <4> QED BY ONLY <1>2, <4>1
    <3>2. Items \subseteq Int
      BY DEF Items
    <3> QED BY <3>1, <3>2
  <2>4. \A a, b \in Int : a <= b /\ a # b => a < b
    OBVIOUS
  <2> QED BY ONLY <2>2, <2>3, <2>4, Zenon
<1>8. \A i \in Items : s[order[i]] = i
  <2> DEFINE f == [i \in Items |-> s[order[i]]]
  <2>1. f \in [Items -> Items] /\ \A i, j \in Items : i < j => f[i] < f[j]
    BY <1>6, <1>7
  <2> HIDE DEF f
  <2>2. \A i \in Items : f[i] = i
    BY <2>1, Increasing
  <2> QED BY <2>2 DEF f
<1> QED BY <1>5, <1>8

-----------------------------------------------------------------------------
\* The type invariant of map_bounded, for every number of items and threads.
THEOREM TypeIsCorrect == Spec => []TypeOK
<1>1. Inv => TypeOK
  BY DEF Inv
<1> QED BY <1>1, InvAlways, PTL

\* Every item that has left the queue is with exactly one worker
\* (parallel.rs:27-36), however many workers take from it.
THEOREM EachItemOnce == Spec => []ExactlyOnce
<1>1. Inv => ExactlyOnce
  <2> SUFFICES ASSUME Inv, NEW i \in Items
               PROVE LET holders == {w \in Workers : Has(w, i)}
                     IN IF i < next THEN \E w \in Workers : holders = {w} ELSE holders = {}
    BY DEF ExactlyOnce, Has
  <2>1. CASE i < next
    BY <2>1 DEF Inv, Handed
  <2>2. CASE ~(i < next)
    BY <2>2 DEF Inv, Handed
  <2> QED BY <2>1, <2>2
<1> QED BY <1>1, InvAlways, PTL

\* The call neither returns nor unwinds while a worker runs (parallel.rs:40-61).
THEOREM NothingRunning == Spec => []NoneLeftRunning
BY OverEnded, InvAlways, PTL
-----------------------------------------------------------------------------
(* map_bounded implements MapOnce *)

\* When the caller returns Ok, the queue is empty and nobody has panicked.
LEMMA JoinedAll ==
  ASSUME Inv, caller = "joining", joined = spawned
  PROVE  next = N + 1 /\ \A w \in Workers : worker[w] \in {"unborn", "returned"}
<1> USE MapBoundedAssumption, ThreadCountType DEF Inv, TypeOK, WorkersInv, CallerInv
<1>1. N # 0 /\ spawned \in 1..ThreadCount
  OBVIOUS
<1>2. \A w \in Workers : w <= joined \/ w > spawned
  BY <1>1
<1>3. 1 \in Workers /\ worker[1] = "returned"
  BY <1>1
<1> QED BY <1>2, <1>3

\* A step of the caller decides the outcome, or cannot be seen.
LEMMA CallerDecides == Inv /\ Caller => [Once!Next]_(Once!vars)
<1> SUFFICES ASSUME Inv, Caller PROVE [Once!Next]_(Once!vars)
  OBVIOUS
<1> USE MapBoundedAssumption, ThreadCountType
<1> DEFINE Crashed == \E w \in Workers : worker[w] \in {"panicked", "killed"}
<1>1. CASE Spawn
  <2> USE <1>1 DEF Spawn
  <2>1. worker[spawned + 1] = "unborn" /\ spawned + 1 \in Workers
    BY DEF Inv, TypeOK, WorkersInv, CallerInv, Over
  <2>2. Crashed' <=> Crashed
    BY <2>1 DEF Inv, TypeOK
  <2> QED BY <2>2 DEF Once!vars
<1>2. CASE SpawnFails /\ spawned = 0
  <2>1. next = 1
    BY <1>2 DEF Inv, CallerInv
  <2> QED BY <1>2, <2>1 DEF SpawnFails, Once!Next, Once!Decide, Over
<1>3. CASE (SpawnFails /\ spawned # 0) \/ AllSpawned \/ Join
  BY <1>3 DEF SpawnFails, AllSpawned, Join, Once!vars, Over
<1>4. CASE JoinPanics
  <2>1. Crashed
    <3>1. joined + 1 \in Workers
      BY <1>4 DEF JoinPanics, Inv, TypeOK, CallerInv
    <3> QED BY <1>4, <3>1 DEF JoinPanics
  <2> QED BY <1>4, <2>1 DEF JoinPanics, Once!Next, Once!Decide, Over
<1>5. CASE Finish
  <2>1. next = N + 1 /\ ~Crashed
    BY <1>5, JoinedAll DEF Finish
  <2>2. 1..(next - 1) = Items
    BY <2>1 DEF Items
  <2> QED BY <1>5, <2>1, <2>2 DEF Finish, Once!Next, Once!Decide, Over
<1> QED BY <1>1, <1>2, <1>3, <1>4, <1>5 DEF Caller

\* A step of a worker applies the work, panics, or cannot be seen.
LEMMA WorkerApplies ==
  ASSUME Inv, NEW w \in Workers, Worker(w)
  PROVE  [Once!Next]_(Once!vars)
<1> USE MapBoundedAssumption, ThreadCountType
<1> DEFINE Crashed == \E v \in Workers : worker[v] \in {"panicked", "killed"}
<1>0. caller \in {"spawning", "joining"}
  BY RunningIsEarly DEF Worker, TakeItem, Return, Push, PanicIn
<1>1. CASE TakeItem(w)
  <2> USE <1>1 DEF TakeItem
  <2>1. Crashed' <=> Crashed
    BY DEF Inv, TypeOK
  <2>2. next \in Items /\ next \notin 1..(next - 1)
    BY DEF Inv, TypeOK, Items
  <2>3. 1..(next' - 1) = (1..(next - 1)) \cup {next}
    BY <2>2 DEF Items
  <2> QED BY <1>0, <2>1, <2>2, <2>3 DEF Once!Next, Once!Apply, Over
<1>2. CASE Return(w) \/ Push(w)
  <2>1. Crashed' <=> Crashed
    BY <1>2 DEF Return, Push, Inv, TypeOK
  <2> QED BY <1>2, <2>1 DEF Return, Push, Once!vars
<1>3. CASE PanicIn(w)
  <2> USE <1>3 DEF PanicIn
  <2>1. item[w] \in Items /\ item[w] < next
    BY DEF Inv, WorkersInv, Handed, Has
  <2>2. 1..(next - 1) # {}
    BY <2>1 DEF Items, Inv, TypeOK
  <2>3. Crashed'
    BY DEF Inv, TypeOK, Ended
  <2>4. caller' = "abort" \/ caller' = caller
    OBVIOUS
  <2> QED BY <1>0, <2>2, <2>3, <2>4 DEF Once!Next, Once!Panic, Over
<1> QED BY <1>1, <1>2, <1>3 DEF Worker

\* What execute (executor.rs:89) and deliver_with_policy (notification.rs:197)
\* rely on: no item twice, Ok only when all were worked on, Err only when none
\* was, for every number of items and threads and both builds.
THEOREM KeepsPromise == Spec => ImplementsMapOnce
<1>1. Init => Once!Init
  BY MapBoundedAssumption DEF Init, Once!Init, Items, Over, Workers
<1>2. Inv /\ [Next]_vars => [Once!Next]_(Once!vars)
  <2> SUFFICES ASSUME Inv, [Next]_vars PROVE [Once!Next]_(Once!vars)
    OBVIOUS
  <2>1. CASE UNCHANGED vars
    BY <2>1 DEF vars, Once!vars
  <2> QED BY <2>1, CallerDecides, WorkerApplies DEF Next
<1> QED
  BY <1>1, <1>2, InvAlways, PTL DEF Spec, ImplementsMapOnce, Once!Spec
-----------------------------------------------------------------------------
(* The results reach the caller *)

\* x is one of the members of a sequence.
Among(s, x) == \E k \in 1..Len(s) : s[k] = x

\* What is in two sequences of items put together is in one of them.
LEMMA AppendedRange ==
  ASSUME NEW s \in Seq(Items), NEW t \in Seq(Items), NEW x
  PROVE  Among(s \o t, x) <=> Among(s, x) \/ Among(t, x)
<1>1. /\ Len(s \o t) = Len(s) + Len(t) /\ Len(s) \in Nat /\ Len(t) \in Nat
      /\ \A k \in 1..Len(s) : (s \o t)[k] = s[k]
      /\ \A k \in 1..Len(t) : (s \o t)[Len(s) + k] = t[k]
  OBVIOUS
<1>2. ASSUME NEW k \in 1..Len(s \o t), k \notin 1..Len(s)
      PROVE  k - Len(s) \in 1..Len(t) /\ (s \o t)[k] = t[k - Len(s)]
  BY <1>1, <1>2
<1>3. ASSUME NEW k \in 1..Len(t) PROVE Len(s) + k \in 1..Len(s \o t)
  BY <1>1
<1>4. ASSUME NEW k \in 1..Len(s) PROVE k \in 1..Len(s \o t)
  BY <1>1
<1> QED BY <1>1, <1>2, <1>3, <1>4 DEF Among

\* Two sequences without a repetition that share nothing make one without.
LEMMA AppendedDistinct ==
  ASSUME NEW S, NEW s \in Seq(S), NEW t \in Seq(S),
         \A j, k \in 1..Len(s) : s[j] = s[k] => j = k,
         \A j, k \in 1..Len(t) : t[j] = t[k] => j = k,
         \A j \in 1..Len(s), k \in 1..Len(t) : s[j] # t[k]
  PROVE  \A j, k \in 1..Len(s \o t) : (s \o t)[j] = (s \o t)[k] => j = k
<1>1. /\ Len(s \o t) = Len(s) + Len(t) /\ Len(s) \in Nat /\ Len(t) \in Nat
      /\ \A k \in 1..Len(s) : (s \o t)[k] = s[k]
      /\ \A k \in 1..Len(t) : (s \o t)[Len(s) + k] = t[k]
  OBVIOUS
<1>2. ASSUME NEW k \in 1..Len(s \o t), k \notin 1..Len(s)
      PROVE  k - Len(s) \in 1..Len(t) /\ (s \o t)[k] = t[k - Len(s)]
  BY <1>1, <1>2
<1> SUFFICES ASSUME NEW j \in 1..Len(s \o t), NEW k \in 1..Len(s \o t),
                    (s \o t)[j] = (s \o t)[k]
             PROVE  j = k
  OBVIOUS
<1>3. CASE j \in 1..Len(s) /\ k \in 1..Len(s)
  BY <1>1, <1>3
<1>4. CASE j \notin 1..Len(s) /\ k \notin 1..Len(s)
  <2>1. j - Len(s) = k - Len(s)
    BY <1>2, <1>4
  <2> QED BY <1>1, <2>1
<1>5. CASE j \in 1..Len(s) /\ k \notin 1..Len(s)
  BY <1>1, <1>2, <1>5
<1>6. CASE j \notin 1..Len(s) /\ k \in 1..Len(s)
  BY <1>1, <1>2, <1>6
<1> QED BY <1>3, <1>4, <1>5, <1>6

\* Every step keeps the results where they belong.
LEMMA ResultsStep ==
  ASSUME Inv, Results, [Next]_vars
  PROVE  Results'
<1> USE MapBoundedAssumption, ThreadCountType
<1>1. ASSUME NEW w \in Workers, TakeItem(w) PROVE Results'
  <2> USE <1>1 DEF TakeItem
  <2>1. worker[w] = "idle" /\ next \in Items /\ caller # "ok"
    BY RunningIsEarly DEF Inv, TypeOK, Items
  <2>2. \A k \in 1..Len(results[w]) : results[w][k] # next
    BY <2>1 DEF Inv, Handed, Has, TypeOK
  <2>3. Distinct'
    BY <2>2 DEF Distinct, Results, Inv, TypeOK
  <2>4. Collected' /\ InputOrder'
    BY DEF Collected, Results, Pushed, InputOrder
  <2> QED BY <2>3, <2>4 DEF Results
<1>2. ASSUME NEW w \in Workers, Push(w) PROVE Results'
  <2> USE <1>2 DEF Push
  <2>1. worker[w] = "working" /\ item[w] \in Items /\ results[w] \in Seq(Items)
    BY DEF Inv, WorkersInv, TypeOK
  <2>2. /\ worker'[w] = "idle" /\ item'[w] = 0 /\ results'[w] = Append(results[w], item[w])
        /\ \A v \in Workers \ {w} : /\ worker'[v] = worker[v] /\ item'[v] = item[v]
                                   /\ results'[v] = results[v]
    BY DEF Inv, TypeOK
  <2>3. /\ Len(results'[w]) = Len(results[w]) + 1 /\ Len(results[w]) \in Nat
        /\ results'[w][Len(results[w]) + 1] = item[w]
        /\ \A k \in 1..Len(results[w]) : results'[w][k] = results[w][k]
    BY <2>1, <2>2
  <2>4. \A j \in 1..Len(results[w]) :
          /\ results[w][j] # item[w] /\ results[w][j] # 0
          /\ \A k \in 1..Len(results[w]) : results[w][j] = results[w][k] => j = k
    BY <2>1 DEF Results, Distinct, Items
  <2>5. ASSUME NEW j \in 1..Len(results'[w])
        PROVE  /\ results'[w][j] # 0
               /\ \A k \in 1..Len(results'[w]) : results'[w][j] = results'[w][k] => j = k
    <3>1. \A k \in 1..Len(results'[w]) :
            k \in 1..Len(results[w]) \/ k = Len(results[w]) + 1
      BY <2>3
    <3>2. item[w] # 0
      BY <2>1 DEF Items
    <3> QED BY <2>3, <2>4, <3>1, <3>2
  <2>6. Distinct'
    <3> SUFFICES ASSUME NEW v \in Workers
                 PROVE  /\ worker'[v] = "unborn" => results'[v] = <<>>
                        /\ \A j \in 1..Len(results'[v]) :
                             /\ results'[v][j] # item'[v]
                             /\ \A k \in 1..Len(results'[v]) :
                                  results'[v][j] = results'[v][k] => j = k
      BY DEF Distinct
    <3>1. CASE v = w
      BY <2>2, <2>5, <3>1
    <3>2. CASE v # w
      BY <2>2, <3>2 DEF Results, Distinct
    <3> QED BY <3>1, <3>2
  <2>7. joined < w /\ w \in Nat /\ joined \in Nat
    BY <2>1, RunningIsEarly DEF Inv, TypeOK, Workers
  <2>8. \A v \in Workers : v <= joined => results'[v] = results[v]
    BY <2>2, <2>7
  <2>9. Collected' /\ InputOrder'
    <3>1. \A v \in Workers, i \in Items : v <= joined => (Pushed(v, i)' <=> Pushed(v, i))
      BY <2>8 DEF Pushed
    <3> QED BY <3>1 DEF Collected, Results, InputOrder
  <2> QED BY <2>6, <2>9 DEF Results
<1>3. ASSUME NEW w \in Workers, Return(w) \/ PanicIn(w) PROVE Results'
  <2>1. UNCHANGED <<item, results, joined, indexed, output>> /\ caller' \in {caller, "abort"}
    BY <1>3 DEF Return, PanicIn
  <2>2. \A v \in Workers : worker'[v] = "unborn" => worker[v] = "unborn"
    BY <1>3 DEF Return, PanicIn, Inv, TypeOK
  <2> QED BY <2>1, <2>2 DEF Results, Distinct, Collected, Pushed, InputOrder
<1>4. CASE Spawn
  <2>1. \A v \in Workers : worker'[v] = "unborn" => worker[v] = "unborn"
    BY <1>4 DEF Spawn, Inv, TypeOK
  <2> QED BY <1>4, <2>1 DEF Spawn, Results, Distinct, Collected, Pushed, InputOrder
<1>5. CASE SpawnFails \/ AllSpawned \/ JoinPanics \/ UNCHANGED vars
  BY <1>5 DEF SpawnFails, AllSpawned, JoinPanics, vars, Results, Distinct, Collected, Pushed,
              InputOrder
<1>6. CASE Join
  <2> USE <1>6 DEF Join
  <2> DEFINE j == joined + 1
  <2>1. j \in Workers /\ joined \in Nat
    BY DEF Inv, TypeOK, CallerInv
  <2>2. indexed \in Seq(Items) /\ results[j] \in Seq(Items) /\ indexed' = indexed \o results[j]
    BY <2>1 DEF Inv, TypeOK
  <2>3. /\ \A k \in 1..Len(indexed) : indexed[k] \in Items
        /\ \A k \in 1..Len(results[j]) : results[j][k] \in Items
    BY <2>2
  <2>4. \A k \in 1..Len(indexed) : ~Pushed(j, indexed[k])
    <3> SUFFICES ASSUME NEW k \in 1..Len(indexed), Pushed(j, indexed[k]) PROVE FALSE
      OBVIOUS
    <3>1. PICK w \in Workers : w <= joined /\ Pushed(w, indexed[k])
      BY <2>3 DEF Results, Collected
    <3>2. Has(w, indexed[k]) /\ Has(j, indexed[k])
      BY <3>1 DEF Has, Pushed
    <3>3. w = j
      BY <2>1, <2>3, <3>2 DEF Inv, Handed
    <3> QED BY <2>1, <3>1, <3>3
  <2> DEFINE all == indexed \o results[j]
  <2>5. ASSUME NEW i \in Items
        PROVE  (\E k \in 1..Len(all) : all[k] = i)
                 <=> (\E k \in 1..Len(indexed) : indexed[k] = i) \/ Pushed(j, i)
    <3> DEFINE t == results[j]
    <3>1. t \in Seq(Items) /\ indexed \in Seq(Items)
      BY <2>2
    <3> HIDE DEF t
    <3>2. Among(indexed \o t, i) <=> Among(indexed, i) \/ Among(t, i)
      BY ONLY <3>1, AppendedRange
    <3> QED BY <3>2 DEF t, Pushed, Among
  <2>6. \A k, l \in 1..Len(all) : all[k] = all[l] => k = l
    <3>1. \A k, l \in 1..Len(indexed) : indexed[k] = indexed[l] => k = l
      BY DEF Results, Collected
    <3>2. \A k, l \in 1..Len(results[j]) : results[j][k] = results[j][l] => k = l
      BY <2>1 DEF Results, Distinct
    <3>3. \A k \in 1..Len(indexed), l \in 1..Len(results[j]) : indexed[k] # results[j][l]
      BY <2>4 DEF Pushed
    <3> DEFINE t == results[j]
    <3>4. t \in Seq(Items)
      BY <2>2
    <3>5. /\ \A k, l \in 1..Len(t) : t[k] = t[l] => k = l
          /\ \A k \in 1..Len(indexed), l \in 1..Len(t) : indexed[k] # t[l]
      BY <3>2, <3>3
    <3> HIDE DEF t
    <3>6. \A k, l \in 1..Len(indexed \o t) : (indexed \o t)[k] = (indexed \o t)[l] => k = l
      BY <2>2, <3>1, <3>4, <3>5, AppendedDistinct
    <3> QED BY <3>6 DEF t
  <2>7. \A w \in Workers : w <= joined' <=> w <= joined \/ w = j
    BY <2>1 DEF Workers
  <2>8. Collected'
    <3>1. \A w \in Workers, i \in Items : Pushed(w, i)' <=> Pushed(w, i)
      BY DEF Pushed
    <3>2. indexed' = all
      OBVIOUS
    <3> HIDE DEF all
    <3> QED BY <2>1, <2>5, <2>6, <2>7, <3>1, <3>2 DEF Results, Collected
  <2>9. Distinct' /\ InputOrder'
    BY DEF Results, Distinct, InputOrder
  <2> QED BY <2>8, <2>9 DEF Results
<1>7. CASE Finish
  <2> USE <1>7 DEF Finish
  <2>1. next = N + 1 /\ \A w \in Workers : worker[w] \in {"unborn", "returned"}
    BY JoinedAll
  <2>2. ASSUME NEW i \in Items PROVE \E k \in 1..Len(indexed) : indexed[k] = i
    <3>1. PICK w \in Workers : Has(w, i)
      BY <2>1 DEF Inv, Handed, Items
    <3>2. item[w] # i
      BY <2>1 DEF Inv, WorkersInv, Items
    <3>3. Pushed(w, i)
      BY <3>1, <3>2 DEF Has, Pushed
    <3>4. worker[w] # "unborn"
      <4>1. worker[w] = "unborn" => Len(results[w]) = 0
        BY DEF Results, Distinct
      <4> QED BY <3>3, <4>1 DEF Pushed
    <3>5. w <= joined
      BY <3>4 DEF Inv, WorkersInv, TypeOK, Workers
    <3> QED BY <3>3, <3>5 DEF Results, Collected
  <2>3. output' = [i \in Items |-> i]
    BY <2>2, SortedOrder DEF Inv, TypeOK, Results, Collected
  <2> QED BY <2>3 DEF Results, Distinct, Collected, Pushed, InputOrder
<1> QED BY <1>1, <1>2, <1>3, <1>4, <1>5, <1>6, <1>7 DEF Next, Caller, Worker

\* The results are where they belong when the call begins: nowhere.
LEMMA ResultsInit == Init => Results
<1> SUFFICES ASSUME Init PROVE Results
  OBVIOUS
<1>1. Distinct /\ Collected
  BY DEF Init, Distinct, Collected, Pushed
<1>2. InputOrder
  BY MapBoundedAssumption DEF Init, InputOrder, Items
<1> QED BY <1>1, <1>2 DEF Results

\* map_bounded returns the results in input order (parallel.rs:6-8), for every
\* number of items and threads and every way the workers shared them.
THEOREM OutputInOrder == Spec => []InputOrder
<1>1. Inv /\ Results /\ [Next]_vars => Results'
  BY ResultsStep
<1>2. Results => InputOrder
  BY DEF Results
<1> QED BY <1>1, <1>2, ResultsInit, InvAlways, PTL DEF Spec

=============================================================================
