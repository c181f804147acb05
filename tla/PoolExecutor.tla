---------------------------- MODULE PoolExecutor ----------------------------
(***************************************************************************)
(* The worker of one pool (src/executor.rs, execute_pool): the batching of *)
(* snapshot commands into rounds and chunks, hooked snapshots with their   *)
(* pre and post scripts, the decision to prune, batched and hooked prunes, *)
(* and the counters it reports.  Every zfs command and every hook may      *)
(* succeed or fail.  A target is a pair <<dataset, index of the name>>.    *)
(***************************************************************************)
EXTENDS Integers, SequencesExt

CONSTANTS
  Datasets,
  Works,              \* the plans: sequences of snapshot and prune actions
  SnapshotBatchSize,
  PruneBatchSize

\* A SnapshotAction with the parts of its policy the executor reads: the number
\* of names, whether it is a `zfs snapshot -r`, the scripts that are
\* configured, no_inconsistent_snapshot and force_post_snapshot_script.
SnapshotActions ==
  [ds : Datasets, n : Nat \ {0}, recursive : BOOLEAN, pre : BOOLEAN, post : BOOLEAN,
   noInconsistent : BOOLEAN, forcePost : BOOLEAN]

PruneActions == [ds : Datasets, n : Nat \ {0}, pre : BOOLEAN, post : BOOLEAN]

\* build_plan makes at most one snapshot action of a dataset.
ASSUME PoolExecutorAssumption ==
  /\ \A w \in Works : /\ w.snapshots \in Seq(SnapshotActions)
                      /\ w.prunes \in Seq(PruneActions)
                      /\ \A j, k \in 1..Len(w.snapshots) :
                           w.snapshots[j].ds = w.snapshots[k].ds => j = k
  /\ SnapshotBatchSize \in Nat \ {0}
  /\ PruneBatchSize \in Nat \ {0}

VARIABLES
  plan,       \* the work of the pool; it never changes
  todo,       \* snapshot work left: batches and hooked actions, in order
  dels,       \* prune work left: batches and hooked names, in order
  at,         \* the next step of the work at hand
  name,       \* the index of the next name of a hooked snapshot
  preOk,      \* pre_succeeded of a hooked snapshot
  flawed,     \* a name or a hook of the hooked snapshot at hand has failed
  snapshotFailed,
  report,     \* PoolResult: created, pruned, skipped, errors
  made,       \* the snapshots ZFS has taken
  gone,       \* the snapshots ZFS has destroyed
  commands,   \* history: the zfs commands issued
  hooks       \* history: the hooks run, <<script, dataset, outcome>>

hooked == <<at, name, preOk, flawed>>
history == <<commands, hooks>>
vars == <<plan, todo, dels, hooked, snapshotFailed, report, made, gone, history>>

-----------------------------------------------------------------------------
(* From a plan to the sequence of commands *)

HasSnapshotHooks(a) == a.pre \/ a.post
HasPruneHooks(a) == a.pre \/ a.post

\* Mutant: chunks_exact, which drops the remainder.
ChunksExact(s, size) ==
  [k \in 1..(Len(s) \div size) |-> SubSeq(s, (k - 1) * size + 1, k * size)]

\* slice::chunks.
Chunks(s, size) ==
  [k \in 1..((Len(s) + size - 1) \div size) |->
     SubSeq(s, (k - 1) * size + 1, IF k * size < Len(s) THEN k * size ELSE Len(s))]

\* The targets of one round: the name with this index of every action that has
\* one, so no dataset occurs twice.
Round(actions, i) ==
  FlattenSeq([k \in 1..Len(actions) |->
                IF actions[k].n >= i THEN << <<actions[k].ds, i>> >> ELSE <<>>])

MaxNames(actions) ==
  Max({0} \cup {actions[k].n : k \in 1..Len(actions)})

\* Mutant: all names of all actions are flattened and chunked together.
BatchesWithoutRounds(actions) ==
  Chunks(FlattenSeq([k \in 1..Len(actions) |->
                       [i \in 1..actions[k].n |-> <<actions[k].ds, i>>]]),
         SnapshotBatchSize)

\* execute_snapshot_batches: round after round, cut into chunks.
Batches(actions) ==
  FlattenSeq([i \in 1..MaxNames(actions) |-> Chunks(Round(actions, i), SnapshotBatchSize)])

Batch(targets) == [kind |-> "batch", targets |-> targets]
Hooked(action) == [kind |-> "hooked", action |-> action]
AsBatches(chunks) == [k \in 1..Len(chunks) |-> Batch(chunks[k])]

\* The actions of a set, in the order of the plan.
Chosen(actions, set) ==
  FlattenSeq([k \in 1..Len(actions) |->
                IF actions[k] \in set THEN <<actions[k]>> ELSE <<>>])

Batchable(recursive) ==
  {a \in SnapshotActions : ~HasSnapshotHooks(a) /\ a.recursive = recursive}

WithHooks == {a \in SnapshotActions : HasSnapshotHooks(a)}

\* Regular batches, then recursive ones, then hooked snapshots one by one.
SnapshotWork(actions) ==
  LET hookedActions == Chosen(actions, WithHooks)
  IN AsBatches(Batches(Chosen(actions, Batchable(FALSE))))
       \o AsBatches(Batches(Chosen(actions, Batchable(TRUE))))
       \o [k \in 1..Len(hookedActions) |-> Hooked(hookedActions[k])]

Names(a) == [i \in 1..a.n |-> <<a.ds, i>>]

\* Per action: chunks of names, or hooked names one by one.
PruneWork(actions) ==
  FlattenSeq([k \in 1..Len(actions) |->
    IF HasPruneHooks(actions[k])
    THEN [i \in 1..actions[k].n |-> Hooked([target |-> <<actions[k].ds, i>>,
                                            pre |-> actions[k].pre, post |-> actions[k].post])]
    ELSE AsBatches(Chunks(Names(actions[k]), PruneBatchSize))])

Targets(actions) == UNION {Range(Names(actions[k])) : k \in 1..Len(actions)}
PlannedSnapshots == Targets(plan.snapshots)
PlannedPrunes == Targets(plan.prunes)

\* The number of names of all actions.
Count(actions) == Len(FlattenSeq([k \in 1..Len(actions) |-> Names(actions[k])]))

-----------------------------------------------------------------------------

Init ==
  /\ plan \in Works
  /\ todo = SnapshotWork(plan.snapshots)
  /\ dels = PruneWork(plan.prunes)
  /\ at = "next" /\ name = 1 /\ preOk = TRUE /\ flawed = FALSE
  /\ snapshotFailed = FALSE
  /\ report = [created |-> 0, pruned |-> 0, skipped |-> 0, errors |-> 0]
  /\ made = {} /\ gone = {}
  /\ commands = <<>> /\ hooks = <<>>

\* invoke_zfs: the command is issued; it takes effect as a whole or fails with
\* an error.
Snapshot(targets, ok) ==
  /\ commands' = Append(commands, targets)
  /\ made' = IF ok THEN made \cup Range(targets) ELSE made
  /\ report' = IF ok THEN [report EXCEPT !.created = @ + Len(targets)]
               ELSE [report EXCEPT !.errors = @ + 1]

Destroy(targets, ok) ==
  /\ gone' = IF ok THEN gone \cup Range(targets) ELSE gone
  /\ report' = IF ok THEN [report EXCEPT !.pruned = @ + Len(targets)]
               ELSE [report EXCEPT !.errors = @ + 1]

\* run_hook: TRUE on exit status 0; a failed spawn, another status, a timeout
\* or a failed wait is an error.  `more` counts the caller's own error.
Hook(script, ds, ok, more) ==
  /\ hooks' = Append(hooks, <<script, ds, ok>>)
  /\ report' = [report EXCEPT !.errors = IF ok THEN @ ELSE @ + 1 + more]

\* One command of execute_snapshot_batches; a failure does not stop the rest.
SnapshotBatch ==
  /\ todo # <<>> /\ at = "next" /\ Head(todo).kind = "batch"
  /\ \E ok \in BOOLEAN :
       /\ Snapshot(Head(todo).targets, ok)
       /\ snapshotFailed' = (snapshotFailed \/ ~ok)
  /\ todo' = Tail(todo)
  /\ UNCHANGED <<plan, dels, hooked, gone, hooks>>

\* execute_hooked_snapshot, the pre script: on failure the snapshot is taken
\* all the same unless no_inconsistent_snapshot.
PreSnapshotHook ==
  /\ todo # <<>> /\ at = "next" /\ Head(todo).kind = "hooked"
  /\ LET a == Head(todo).action IN
     /\ \/ ~a.pre /\ preOk' = TRUE /\ UNCHANGED <<report, hooks>>
        \/ a.pre /\ \E ok \in BOOLEAN :
             /\ preOk' = ok
             /\ Hook("pre", a.ds, ok, IF a.noInconsistent THEN 1 ELSE 0)
     /\ at' = IF preOk' \/ ~a.noInconsistent THEN "names" ELSE "post"
  /\ name' = 1
  /\ flawed' = ~preOk'
  /\ UNCHANGED <<plan, todo, dels, snapshotFailed, made, gone, commands>>

\* Mutant: a failed name ends the action without its post script.
HookedSnapshotReturns ==
  /\ todo # <<>> /\ at = "names"
  /\ LET a == Head(todo).action IN
     \E ok \in BOOLEAN :
       /\ Snapshot(<<<<a.ds, name>>>>, ok)
       /\ flawed' = (flawed \/ ~ok)
       /\ at' = IF ~ok THEN "next" ELSE IF name = a.n THEN "post" ELSE "names"
       /\ todo' = IF ok THEN todo ELSE Tail(todo)
  /\ name' = name + 1
  /\ UNCHANGED <<plan, dels, preOk, snapshotFailed, gone, hooks>>

\* One name after the other, failures notwithstanding.
HookedSnapshot ==
  /\ todo # <<>> /\ at = "names"
  /\ LET a == Head(todo).action IN
     /\ \E ok \in BOOLEAN :
          /\ Snapshot(<<<<a.ds, name>>>>, ok)
          /\ flawed' = (flawed \/ ~ok)
     /\ at' = IF name = a.n THEN "post" ELSE "names"
  /\ name' = name + 1
  /\ UNCHANGED <<plan, todo, dels, preOk, snapshotFailed, gone, hooks>>

\* The post script runs if the pre script succeeded or it is forced.
PostDue == Head(todo).action.post /\ (preOk \/ Head(todo).action.forcePost)

\* Then the action is over, and its failure is the pool's.
PostSnapshotHook ==
  /\ todo # <<>> /\ at = "post"
  /\ \/ /\ ~PostDue
        /\ snapshotFailed' = (snapshotFailed \/ flawed)
        /\ UNCHANGED <<report, hooks>>
     \/ /\ PostDue
        /\ \E ok \in BOOLEAN :
             /\ Hook("post", Head(todo).action.ds, ok, 0)
             /\ snapshotFailed' = (snapshotFailed \/ flawed \/ ~ok)
  /\ todo' = Tail(todo)
  /\ at' = "next" /\ name' = 1 /\ preOk' = TRUE /\ flawed' = FALSE
  /\ UNCHANGED <<plan, dels, made, gone, commands>>

\* Mutant: the prune phase does not look at snapshot_failed.
PruneRegardless ==
  /\ todo = <<>> /\ at = "next"
  /\ at' = "prune"
  /\ UNCHANGED <<plan, todo, dels, name, preOk, flawed, snapshotFailed, report, made, gone,
                 history>>

\* snapshot_failed and prunes to do: they are counted as skipped and dropped.
DecidePrune ==
  /\ todo = <<>> /\ at = "next"
  /\ IF snapshotFailed
     THEN /\ at' = "done"
          /\ dels' = <<>>
          /\ report' = [report EXCEPT !.skipped = Count(plan.prunes)]
     ELSE /\ at' = "prune"
          /\ UNCHANGED <<dels, report>>
  /\ UNCHANGED <<plan, todo, name, preOk, flawed, snapshotFailed, made, gone, history>>

\* One command of execute_prune_batches.
PruneBatch ==
  /\ at = "prune" /\ dels # <<>> /\ Head(dels).kind = "batch"
  /\ \E ok \in BOOLEAN : Destroy(Head(dels).targets, ok)
  /\ dels' = Tail(dels)
  /\ UNCHANGED <<plan, todo, hooked, snapshotFailed, made, history>>

\* execute_hooked_prunes: when the pre-pruning script fails the name is kept.
PrePruningHook ==
  /\ at = "prune" /\ dels # <<>> /\ Head(dels).kind = "hooked"
  /\ LET a == Head(dels).action IN
     \/ ~a.pre /\ at' = "destroy" /\ UNCHANGED <<dels, report, hooks>>
     \/ a.pre /\ \E ok \in BOOLEAN :
          /\ Hook("prune", a.target[1], ok, 1)
          /\ IF ok THEN at' = "destroy" /\ UNCHANGED dels
             ELSE at' = at /\ dels' = Tail(dels)
  /\ UNCHANGED <<plan, todo, name, preOk, flawed, snapshotFailed, made, gone, commands>>

HookedDestroy ==
  /\ at = "destroy"
  /\ \E ok \in BOOLEAN :
       /\ Destroy(<<Head(dels).action.target>>, ok)
       /\ IF ok /\ Head(dels).action.post
          THEN at' = "pruned" /\ UNCHANGED dels
          ELSE at' = "prune" /\ dels' = Tail(dels)
  /\ UNCHANGED <<plan, todo, name, preOk, flawed, snapshotFailed, made, history>>

\* The pruning script runs after the destroy; its failure is only an error.
PruningHook ==
  /\ at = "pruned"
  /\ \E ok \in BOOLEAN : Hook("pruned", Head(dels).action.target[1], ok, 0)
  /\ at' = "prune" /\ dels' = Tail(dels)
  /\ UNCHANGED <<plan, todo, name, preOk, flawed, snapshotFailed, made, gone, commands>>

\* All prunes of the pool have been tried.
EndPrunes ==
  /\ at = "prune" /\ dels = <<>>
  /\ at' = "done"
  /\ UNCHANGED <<plan, todo, dels, name, preOk, flawed, snapshotFailed, report, made, gone,
                 history>>

Next ==
  \/ SnapshotBatch \/ PreSnapshotHook \/ HookedSnapshot \/ PostSnapshotHook
  \/ DecidePrune
  \/ PruneBatch \/ PrePruningHook \/ HookedDestroy \/ PruningHook \/ EndPrunes

Spec == Init /\ [][Next]_vars

-----------------------------------------------------------------------------
(* Properties *)

TypeOK ==
  /\ plan \in Works
  /\ \A k \in 1..Len(todo) : todo[k].kind \in {"batch", "hooked"}
  /\ \A k \in 1..Len(dels) : dels[k].kind \in {"batch", "hooked"}
  /\ at \in {"next", "names", "post", "prune", "destroy", "pruned", "done"}
  /\ name \in Nat \ {0}
  /\ preOk \in BOOLEAN /\ flawed \in BOOLEAN /\ snapshotFailed \in BOOLEAN
  /\ report \in [created : Nat, pruned : Nat, skipped : Nat, errors : Nat]
  /\ made \subseteq PlannedSnapshots /\ gone \subseteq PlannedPrunes
  /\ commands \in Seq(Seq(PlannedSnapshots))
  /\ hooks \in Seq({"pre", "post", "prune", "pruned"} \X Datasets \X BOOLEAN)

\* executor.rs:198-200: a `zfs snapshot` never has two names of one dataset,
\* never exceeds the batch size and never mixes -r with plain targets; OpenZFS
\* rejects the first, argument limits the second.
WellFormedCommands ==
  \A c \in Range(commands) :
    /\ Len(c) \in 1..SnapshotBatchSize
    /\ \A i, j \in 1..Len(c) : c[i][1] = c[j][1] => i = j
    /\ LET kinds == {a.recursive : a \in {a \in Range(plan.snapshots) :
                                           \E t \in Range(c) : t[1] = a.ds}}
       IN Cardinality(kinds) = 1

\* A report without errors means that the whole plan has been carried out: what
\* main.rs relies on when it updates the status cache from the plan.
SuccessIsComplete ==
  at = "done" /\ report.errors = 0 =>
    made = PlannedSnapshots /\ gone = PlannedPrunes /\ report.skipped = 0

\* A pre script that succeeded is followed by the post script of its dataset,
\* even if every snapshot between them fails: what it froze is thawed.  Without
\* it the post script runs only when forced.
PostFollowsPre ==
  \A a \in Range(plan.snapshots) :
    a.post /\ Hooked(a) \notin Range(todo) =>
      LET ran(script, ok) == <<script, a.ds, ok>> \in Range(hooks)
      IN (ran("post", TRUE) \/ ran("post", FALSE)) = (~ran("pre", FALSE) \/ a.forcePost)

\* The order of snapshots and prunes, and that nothing is destroyed after a
\* snapshot failure, are those of PoolPromise.
Stage ==
  IF at \in {"prune", "destroy", "pruned"} THEN "prune"
  ELSE IF at = "done" THEN "done" ELSE "snapshot"

Promise == INSTANCE PoolPromise
             WITH snapshots <- PlannedSnapshots, prunes <- PlannedPrunes,
                  failed <- snapshotFailed \/ flawed, stage <- Stage
KeepsPromise == Promise!Spec

\* The worker comes to an end.
Terminates == <>(at = "done")
=============================================================================
