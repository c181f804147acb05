----------------------------- MODULE MapBounded -----------------------------
(***************************************************************************)
(* map_bounded (src/parallel.rs): a caller thread spawns at most           *)
(* max_threads scoped workers, which take items from a shared queue until  *)
(* it is empty; the caller joins them in order, passes a panic on, and     *)
(* returns the results in input order.  Spawning may fail at any thread    *)
(* and the work may panic on any item; the release profile (Cargo.toml:30) *)
(* turns a panic into an abort of the process, the others unwind.          *)
(***************************************************************************)
EXTENDS Integers, Sequences, FiniteSets

CONSTANTS
  N,            \* the number of items
  MaxThreads,   \* max_threads
  PanicAborts   \* what a panic may do: {TRUE} in a build that aborts the process,
                \* {FALSE} in one that unwinds the thread

ASSUME MapBoundedAssumption == N \in Nat /\ MaxThreads \in Nat /\ PanicAborts \subseteq BOOLEAN

Items == 1..N

\* max_threads.clamp(1, item_count).
ThreadCount ==
  IF MaxThreads < 1 THEN 1 ELSE IF MaxThreads > N THEN N ELSE MaxThreads

Workers == IF N = 0 THEN {} ELSE 1..ThreadCount

\* The call is over.
Over == {"ok", "err", "panic", "abort"}

VARIABLES
  next,       \* the next item of the queue
  worker,     \* "unborn", "idle", "working", "returned", "panicked" or "killed"
  item,       \* the item a worker holds, 0 when it holds none
  results,    \* the indices of the results each worker has pushed
  caller,     \* "spawning", "joining", "ok", "err", "panic" or "abort"
  spawned,    \* handles.len()
  joined,     \* the handles joined so far
  indexed,    \* the results collected from them
  output      \* the returned vector

vars == <<next, worker, item, results, caller, spawned, joined, indexed, output>>

\* Of the output InputOrder says more.
TypeOK ==
  /\ next \in 1..(N + 1)
  /\ worker \in [Workers -> {"unborn", "idle", "working", "returned", "panicked", "killed"}]
  /\ item \in [Workers -> 0..N]
  /\ results \in [Workers -> Seq(Items)]
  /\ caller \in {"spawning", "joining"} \cup Over
  /\ spawned \in 0..ThreadCount
  /\ joined \in 0..ThreadCount
  /\ indexed \in Seq(Items)

Init ==
  /\ next = 1
  /\ worker = [w \in Workers |-> "unborn"]
  /\ item = [w \in Workers |-> 0]
  /\ results = [w \in Workers |-> <<>>]
  /\ caller = IF N = 0 THEN "ok" ELSE "spawning"
  /\ spawned = 0
  /\ joined = 0
  /\ indexed = <<>>
  /\ output = <<>>

-----------------------------------------------------------------------------
(* The caller *)

\* spawn_scoped succeeds: the worker runs at once, beside the spawning loop.
Spawn ==
  /\ caller = "spawning" /\ spawned < ThreadCount
  /\ worker' = [worker EXCEPT ![spawned + 1] = "idle"]
  /\ spawned' = spawned + 1
  /\ UNCHANGED <<next, item, results, caller, joined, indexed, output>>

\* Mutant: any failed spawn is the caller's error.
SpawnFailsForGood ==
  /\ caller = "spawning" /\ spawned < ThreadCount
  /\ caller' = "err"
  /\ UNCHANGED <<next, worker, item, results, spawned, joined, indexed, output>>

\* The thread cannot be created: an error if it is the first one, otherwise
\* the workers already running do the rest.
SpawnFails ==
  /\ caller = "spawning" /\ spawned < ThreadCount
  /\ caller' = IF spawned = 0 THEN "err" ELSE "joining"
  /\ UNCHANGED <<next, worker, item, results, spawned, joined, indexed, output>>

AllSpawned ==
  /\ caller = "spawning" /\ spawned = ThreadCount
  /\ caller' = "joining"
  /\ UNCHANGED <<next, worker, item, results, spawned, joined, indexed, output>>

\* handle.join() of the next handle returns the worker's results.
Join ==
  /\ caller = "joining" /\ joined < spawned
  /\ worker[joined + 1] = "returned"
  /\ indexed' = indexed \o results[joined + 1]
  /\ joined' = joined + 1
  /\ UNCHANGED <<next, worker, item, results, caller, spawned, output>>

Ended == {"unborn", "returned", "panicked", "killed"}

\* Mutant: results come over a channel, and a panicked worker sends none.
JoinWaits == FALSE /\ UNCHANGED vars

\* Mutant: plain threads, which unwinding does not wait for.
JoinUnscoped ==
  /\ caller = "joining" /\ joined < spawned
  /\ worker[joined + 1] = "panicked"
  /\ caller' = "panic"
  /\ UNCHANGED <<next, worker, item, results, spawned, joined, indexed, output>>

\* handle.join() returns the payload of a panic: resume_unwind.  The scope
\* lets the unwinding leave only when every other worker has ended.
JoinPanics ==
  /\ caller = "joining" /\ joined < spawned
  /\ worker[joined + 1] = "panicked"
  /\ \A w \in Workers : worker[w] \in Ended
  /\ caller' = "panic"
  /\ UNCHANGED <<next, worker, item, results, spawned, joined, indexed, output>>

\* sort_unstable_by_key.
Sorted(s) ==
  LET D == 1..Len(s)
      order == CHOOSE p \in [D -> D] : \A i, j \in D : i < j =>
                 p[i] # p[j] /\ s[p[i]] <= s[p[j]]
  IN [i \in D |-> s[order[i]]]

\* Mutant: results in the order of the handles.
FinishUnsorted ==
  /\ caller = "joining" /\ joined = spawned
  /\ output' = indexed
  /\ caller' = "ok"
  /\ UNCHANGED <<next, worker, item, results, spawned, joined, indexed>>

\* All handles are joined: sort by index, return.
Finish ==
  /\ caller = "joining" /\ joined = spawned
  /\ output' = Sorted(indexed)
  /\ caller' = "ok"
  /\ UNCHANGED <<next, worker, item, results, spawned, joined, indexed>>

-----------------------------------------------------------------------------
(* A worker *)

\* Under the queue's mutex: take the next item.
TakeItem(w) ==
  /\ worker[w] = "idle" /\ next <= N
  /\ item' = [item EXCEPT ![w] = next]
  /\ next' = next + 1
  /\ worker' = [worker EXCEPT ![w] = "working"]
  /\ UNCHANGED <<results, caller, spawned, joined, indexed, output>>

\* The queue is empty: the closure returns its results.
Return(w) ==
  /\ worker[w] = "idle" /\ next > N
  /\ worker' = [worker EXCEPT ![w] = "returned"]
  /\ UNCHANGED <<next, item, results, caller, spawned, joined, indexed, output>>

\* Mutant: the position is read without the mutex and written back afterwards,
\* so what others have taken meanwhile is handed out again.
PushWritesBack(w) ==
  /\ worker[w] = "working"
  /\ results' = [results EXCEPT ![w] = Append(@, item[w])]
  /\ next' = item[w] + 1
  /\ item' = [item EXCEPT ![w] = 0]
  /\ worker' = [worker EXCEPT ![w] = "idle"]
  /\ UNCHANGED <<caller, spawned, joined, indexed, output>>

\* work(item) returns.
Push(w) ==
  /\ worker[w] = "working"
  /\ results' = [results EXCEPT ![w] = Append(@, item[w])]
  /\ item' = [item EXCEPT ![w] = 0]
  /\ worker' = [worker EXCEPT ![w] = "idle"]
  /\ UNCHANGED <<next, caller, spawned, joined, indexed, output>>

\* work(item) panics, outside the queue's mutex, and keeps its item: the
\* thread unwinds, or the process and its threads are gone.
PanicIn(w) ==
  /\ worker[w] = "working"
  /\ \/ /\ TRUE \in PanicAborts
        /\ caller' = "abort"
        /\ worker' = [v \in Workers |-> IF worker[v] \in Ended THEN worker[v] ELSE "killed"]
     \/ /\ FALSE \in PanicAborts
        /\ worker' = [worker EXCEPT ![w] = "panicked"]
        /\ UNCHANGED caller
  /\ UNCHANGED <<next, item, results, spawned, joined, indexed, output>>

Caller == Spawn \/ SpawnFails \/ AllSpawned \/ Join \/ JoinPanics \/ Finish
Worker(w) == TakeItem(w) \/ Return(w) \/ Push(w) \/ PanicIn(w)

Next == Caller \/ \E w \in Workers : Worker(w)

Spec == Init /\ [][Next]_vars

\* Threads are scheduled and the work on an item ends.
FairSpec == Spec /\ WF_vars(Caller) /\ \A w \in Workers : WF_vars(Worker(w))

-----------------------------------------------------------------------------
(* Properties *)

\* Ok carries one result per item, in input order, however the items were
\* spread over however many threads could be spawned (parallel.rs:6-8).
InputOrder == caller = "ok" => output = [i \in Items |-> i]

\* Every item that has left the queue is with exactly one worker.
ExactlyOnce ==
  \A i \in Items :
    LET holders == {w \in Workers : item[w] = i \/ \E k \in 1..Len(results[w]) : results[w][k] = i}
    IN IF i < next THEN \E w \in Workers : holders = {w} ELSE holders = {}

\* map_bounded never returns, nor unwinds, while a worker is still running:
\* the caller may drop what the work borrows (thread::scope).
NoneLeftRunning ==
  caller \in Over => \A w \in Workers : worker[w] \in Ended

\* The call returns, with a value, an error or a panic.
Returns == <>(caller \in Over)

\* It implements MapOnce: no item twice, Ok only for all items, Err only for
\* none, a panic only after one.
Once == INSTANCE MapOnce WITH
  applied <- 1..(next - 1),
  crashed <- \E w \in Workers : worker[w] \in {"panicked", "killed"},
  outcome <- IF caller = "abort" THEN "panic" ELSE IF caller \in Over THEN caller ELSE "pending"
ImplementsMapOnce == Once!Spec
=============================================================================
