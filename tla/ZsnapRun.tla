------------------------------ MODULE ZsnapRun ------------------------------
(***************************************************************************)
(* Mutating zsnap invocations (src/main.rs, run_zfs_command) against a ZFS *)
(* that changes under them: take the lock, list the snapshots, plan at one *)
(* instant, run the plan pool by pool, write the status cache, drop the    *)
(* lock.  The listing is stale by the time it is planned on, the plan is   *)
(* stale by the time its commands run, time passes between any two steps,  *)
(* administrators hold, release and take snapshots, commands fail, and the *)
(* process may be killed with a command in flight.                         *)
(*                                                                         *)
(* A class is one snapshot kind of one dataset: the planner treats classes *)
(* independently.  The order in which a pool's commands are issued is left *)
(* open here; PoolExecutor fixes it.                                       *)
(***************************************************************************)
EXTENDS Integers, FiniteSets, FiniteSetsExt

CONSTANTS
  Runs,             \* processes that run a mutating command
  Pools,
  Datasets,
  Classes,          \* (dataset, kind) pairs under policy
  DatasetOf,        \* [Classes -> Datasets]
  PoolOf,           \* [Datasets -> Pools]
  Keep,             \* [Classes -> Nat]: Policy::retention
  Window,           \* [Classes -> Nat]: approximate_period_seconds * keep
  Boundaries,       \* [Classes -> SUBSET Nat]: the preferred instants
  MaxTime,          \* bound on the clock
  MaxRuns,          \* bound on the invocations that get the lock
  MaxAdmin,         \* bound on the administrator's actions
  OrphansSurvive,   \* a zfs command outlives the zsnap process that is killed
  StartTime,        \* the clock, and
  StartSnaps        \* the possible inventories, when the model starts

\* A snapshot: its class, the run that named it (0: none of the modelled
\* runs), its creation time and whether it carries the managed property.
Snapshot == [cls : Classes, name : 0..MaxRuns, at : 0..MaxTime, managed : BOOLEAN]

\* Every clock reading has a preferred instant before it.
ASSUME ZsnapRunAssumption ==
  /\ IsFiniteSet(Classes)
  /\ DatasetOf \in [Classes -> Datasets]
  /\ PoolOf \in [Datasets -> Pools]
  /\ Keep \in [Classes -> Nat]
  /\ Window \in [Classes -> Nat]
  /\ Boundaries \in [Classes -> SUBSET Nat] /\ \A c \in Classes : 0 \in Boundaries[c]
  /\ {MaxTime, MaxRuns, MaxAdmin} \subseteq Nat
  /\ OrphansSurvive \in BOOLEAN
  /\ StartTime \in 0..MaxTime
  /\ \A start \in StartSnaps : start \subseteq {s \in Snapshot : s.name = 0}

VARIABLES
  clock,      \* the time
  snaps,      \* the snapshots that exist
  held,       \* those with a user hold or a clone
  mutators,   \* the runs inside the locked region (OneRun)
  pc,         \* where each run is
  scope,      \* run, snapshot or prune
  number,     \* the invocation number of each run: its snapshots' name
  seen,       \* the listing of each run: [snaps, held]
  planned,    \* the instant each run planned for
  creates,    \* classes each run still has to snapshot
  prunes,     \* snapshots each run still has to destroy
  phase,      \* where each run's pool workers are
  cmd,        \* the zfs command each pool worker has in flight
  failed,     \* pools of each run with a failed snapshot or snapshot hook
  errors,     \* whether the report of each run has errors
  orphans,    \* commands whose run was killed
  forecast,   \* dataset counts each run would cache
  cache,      \* dataset counts in the cache file
  exact,      \* history: nothing has changed since the listing behind the cache
  touched,    \* history: others changed the snapshots since each run listed
  runs,       \* invocations so far
  admin       \* administrator's actions so far

zfs == <<snaps, held>>
plan == <<seen, planned, scope, number>>
work == <<creates, prunes, phase, cmd, failed, errors>>
counters == <<runs, admin>>
history == <<exact, touched>>
vars == <<clock, zfs, mutators, pc, plan, work, orphans, forecast, cache, history, counters>>

Lock == INSTANCE OneRun WITH Procs <- Runs

Nothing == [op |-> "none", batch |-> {}]

Command ==
  {Nothing} \cup [op : {"snapshot"}, batch : SUBSET Classes]
            \cup [op : {"destroy"}, batch : SUBSET Snapshot]

Count(set) ==
  [d \in Datasets |-> Cardinality({s \in set : DatasetOf[s.cls] = d})]

TypeOK ==
  /\ clock \in 0..MaxTime
  /\ snaps \subseteq Snapshot /\ held \subseteq snaps
  /\ mutators \subseteq Runs
  /\ pc \in [Runs -> {"idle", "locked", "listed", "working", "finished", "cached"}]
  /\ scope \in [Runs -> {"run", "snapshot", "prune"}]
  /\ number \in [Runs -> 0..MaxRuns]
  /\ seen \in [Runs -> [snaps : SUBSET Snapshot, held : SUBSET Snapshot]]
  /\ planned \in [Runs -> 0..MaxTime]
  /\ creates \in [Runs -> SUBSET Classes]
  /\ prunes \in [Runs -> SUBSET Snapshot]
  /\ phase \in [Runs -> [Pools -> {"snapshot", "prune", "done"}]]
  /\ cmd \in [Runs -> [Pools -> Command]]
  /\ failed \in [Runs -> SUBSET Pools]
  /\ errors \in [Runs -> BOOLEAN]
  /\ orphans \subseteq [cmd : Command, name : 0..MaxRuns]
  /\ forecast \in [Runs -> [Datasets -> Nat]]
  /\ cache \in [Datasets -> Nat]
  /\ exact \in BOOLEAN /\ touched \in [Runs -> BOOLEAN]
  /\ runs \in 0..MaxRuns /\ admin \in 0..MaxAdmin

Init ==
  /\ clock = StartTime
  /\ snaps \in StartSnaps
  /\ held = {}
  /\ Lock!Init
  /\ pc = [r \in Runs |-> "idle"]
  /\ scope = [r \in Runs |-> "run"]
  /\ number = [r \in Runs |-> 0]
  /\ seen = [r \in Runs |-> [snaps |-> {}, held |-> {}]]
  /\ planned = [r \in Runs |-> 0]
  /\ creates = [r \in Runs |-> {}]
  /\ prunes = [r \in Runs |-> {}]
  /\ phase = [r \in Runs |-> [q \in Pools |-> "done"]]
  /\ cmd = [r \in Runs |-> [q \in Pools |-> Nothing]]
  /\ failed = [r \in Runs |-> {}]
  /\ errors = [r \in Runs |-> FALSE]
  /\ orphans = {}
  /\ forecast = [r \in Runs |-> [d \in Datasets |-> 0]]
  /\ cache = [d \in Datasets |-> 0]
  /\ exact = FALSE
  /\ touched = [r \in Runs |-> FALSE]
  /\ runs = 0
  /\ admin = 0

-----------------------------------------------------------------------------
(* The planner *)

\* most_recent_preferred: the last boundary not after t.
Preferred(c, t) == Max({b \in Boundaries[c] : b <= t})

\* Mutant: due when the newest is a full window old, not when a scheduled
\* instant has passed.
DueByAge(c, listing, now) ==
  /\ Keep[c] # 0
  /\ \A s \in listing : s.cls = c => s.at + Window[c] < now

\* snapshot_due: the newest snapshot of the class, managed or not, is older
\* than the preferred instant; a retention of 0 disables the class.
Due(c, listing, now) ==
  /\ Keep[c] # 0
  /\ \A s \in listing : s.cls = c => s.at < Preferred(c, now)

\* The order prune candidates are sorted in.
Newer(s, t) == s.at > t.at \/ (s.at = t.at /\ s.name > t.name)

\* Mutant: the loop runs while remaining >= keep.
PrunableOneMore(c, listing, protected, now) ==
  LET candidates == {s \in listing \ protected : s.cls = c /\ s.managed}
  IN {s \in candidates :
        /\ Cardinality({t \in candidates : Newer(t, s)}) >= Keep[c] - 1
        /\ s.at < now - Window[c]}

\* The prune loop: oldest first, while more than keep candidates remain and
\* the next one is past the window.  Unmanaged and protected snapshots are not
\* candidates, so they count towards nothing.
Prunable(c, listing, protected, now) ==
  LET candidates == {s \in listing \ protected : s.cls = c /\ s.managed}
  IN {s \in candidates :
        /\ Cardinality({t \in candidates : Newer(t, s)}) >= Keep[c]
        /\ s.at < now - Window[c]}

\* The counts StatusCache::from_inventory predicts from a listing and a plan.
Forecast(listing, create, prune) ==
  [d \in Datasets |->
     Cardinality({s \in listing \ prune : DatasetOf[s.cls] = d})
       + Cardinality({c \in create : DatasetOf[c] = d})]

-----------------------------------------------------------------------------
(* One invocation *)

\* Mutant: `let _ = RunLock::acquire(..)`, which drops the guard at once.
AcquireAndDrop(r) ==
  /\ pc[r] = "idle" /\ runs < MaxRuns
  /\ mutators = {} /\ UNCHANGED mutators
  /\ runs' = runs + 1
  /\ number' = [number EXCEPT ![r] = runs + 1]
  /\ \E s \in {"run", "snapshot", "prune"} : scope' = [scope EXCEPT ![r] = s]
  /\ pc' = [pc EXCEPT ![r] = "locked"]
  /\ UNCHANGED <<clock, zfs, seen, planned, work, orphans, forecast, cache, history, admin>>

\* RunLock::acquire succeeds.  A refused invocation ends at once and leaves no
\* trace, so it is not a step.
Acquire(r) ==
  /\ pc[r] = "idle" /\ runs < MaxRuns
  /\ Lock!Enter(r)
  /\ runs' = runs + 1
  /\ number' = [number EXCEPT ![r] = runs + 1]
  /\ \E s \in {"run", "snapshot", "prune"} : scope' = [scope EXCEPT ![r] = s]
  /\ pc' = [pc EXCEPT ![r] = "locked"]
  /\ UNCHANGED <<clock, zfs, seen, planned, work, orphans, forecast, cache, history, admin>>

\* Inventory::discover.
Discover(r) ==
  /\ pc[r] = "locked"
  /\ seen' = [seen EXCEPT ![r] = [snaps |-> snaps, held |-> held]]
  /\ pc' = [pc EXCEPT ![r] = "listed"]
  /\ touched' = [touched EXCEPT ![r] = FALSE]
  /\ UNCHANGED <<clock, zfs, mutators, planned, scope, number, work, orphans,
                 forecast, cache, exact, counters>>

PoolOfSnap(s) == PoolOf[DatasetOf[s.cls]]

\* What filter_plan leaves of the snapshots and of the prunes for a run's scope;
\* datasets whose prune_defer exceeds the pool's capacity prune nothing.
WantedSnapshots(r) ==
  {c \in Classes : scope[r] # "prune" /\ Due(c, seen[r].snaps, clock)}

WantedPrunes(r, deferred) ==
  UNION {Prunable(c, seen[r].snaps, seen[r].held, clock) :
           c \in {c \in Classes : scope[r] # "snapshot" /\ DatasetOf[c] \notin deferred}}

\* execute groups the actions by pool.
Stages(create, prune) ==
  [q \in Pools |-> IF \E c \in create : PoolOf[DatasetOf[c]] = q THEN "snapshot"
                   ELSE IF \E s \in prune : PoolOfSnap(s) = q THEN "prune"
                   ELSE "done"]

\* resolve_datasets, build_plan at Utc::now(), filter_plan.
Plan(r) ==
  /\ pc[r] = "listed"
  /\ \E deferred \in SUBSET Datasets :
       LET create == WantedSnapshots(r)
           prune == WantedPrunes(r, deferred)
       IN /\ creates' = [creates EXCEPT ![r] = create]
          /\ prunes' = [prunes EXCEPT ![r] = prune]
          /\ phase' = [phase EXCEPT ![r] = Stages(create, prune)]
          /\ forecast' = [forecast EXCEPT ![r] = Forecast(seen[r].snaps, create, prune)]
  /\ planned' = [planned EXCEPT ![r] = clock]
  /\ seen' = [seen EXCEPT ![r] = [snaps |-> {}, held |-> {}]]
  /\ pc' = [pc EXCEPT ![r] = "working"]
  /\ UNCHANGED <<clock, zfs, mutators, scope, number, cmd, failed, errors, orphans,
                 cache, history, counters>>

CreatesIn(r, q) == {c \in creates[r] : PoolOf[DatasetOf[c]] = q}
PrunesIn(r, q) == {s \in prunes[r] : PoolOfSnap(s) = q}

\* A pool worker issues its next `zfs snapshot`, for one or more classes.
SpawnSnapshot(r, q) ==
  /\ pc[r] = "working" /\ phase[r][q] = "snapshot" /\ cmd[r][q] = Nothing
  /\ \E batch \in SUBSET CreatesIn(r, q) :
       /\ batch # {}
       /\ cmd' = [cmd EXCEPT ![r][q] = [op |-> "snapshot", batch |-> batch]]
       /\ creates' = [creates EXCEPT ![r] = @ \ batch]
  /\ UNCHANGED <<clock, zfs, mutators, pc, plan, prunes, phase, failed, errors,
                 orphans, forecast, cache, history, counters>>

\* A snapshot hook fails; with no_inconsistent_snapshot its dataset is skipped.
SnapshotHookFails(r, q) ==
  /\ pc[r] = "working" /\ phase[r][q] = "snapshot" /\ cmd[r][q] = Nothing
  /\ \E skipped \in {{}} \cup {{c \in CreatesIn(r, q) : DatasetOf[c] = d} : d \in Datasets} :
       creates' = [creates EXCEPT ![r] = @ \ skipped]
  /\ failed' = [failed EXCEPT ![r] = @ \cup {q}]
  /\ errors' = [errors EXCEPT ![r] = TRUE]
  /\ UNCHANGED <<clock, zfs, mutators, pc, plan, prunes, phase, cmd, orphans,
                 forecast, cache, history, counters>>

\* All snapshots of the pool have been tried: prune, or skip pruning.
EndSnapshots(r, q) ==
  /\ pc[r] = "working" /\ phase[r][q] = "snapshot" /\ cmd[r][q] = Nothing
  /\ CreatesIn(r, q) = {}
  /\ phase' = [phase EXCEPT ![r][q] = IF q \in failed[r] THEN "done" ELSE "prune"]
  /\ prunes' = [prunes EXCEPT ![r] = IF q \in failed[r] THEN @ \ PrunesIn(r, q) ELSE @]
  /\ UNCHANGED <<clock, zfs, mutators, pc, plan, creates, cmd, failed, errors,
                 orphans, forecast, cache, history, counters>>

\* The next `zfs destroy dataset@a,b`.
SpawnDestroy(r, q) ==
  /\ pc[r] = "working" /\ phase[r][q] = "prune" /\ cmd[r][q] = Nothing
  /\ \E batch \in SUBSET PrunesIn(r, q) :
       /\ batch # {}
       /\ \A s, t \in batch : DatasetOf[s.cls] = DatasetOf[t.cls]
       /\ cmd' = [cmd EXCEPT ![r][q] = [op |-> "destroy", batch |-> batch]]
       /\ prunes' = [prunes EXCEPT ![r] = @ \ batch]
  /\ UNCHANGED <<clock, zfs, mutators, pc, plan, creates, phase, failed, errors,
                 orphans, forecast, cache, history, counters>>

\* A pruning hook fails: before the destroy, which is then skipped, or after.
PruneHookFails(r, q) ==
  /\ pc[r] = "working" /\ phase[r][q] = "prune" /\ cmd[r][q] = Nothing
  /\ \E skipped \in {{}} \cup {{s} : s \in PrunesIn(r, q)} :
       prunes' = [prunes EXCEPT ![r] = @ \ skipped]
  /\ errors' = [errors EXCEPT ![r] = TRUE]
  /\ UNCHANGED <<clock, zfs, mutators, pc, plan, creates, phase, cmd, failed,
                 orphans, forecast, cache, history, counters>>

EndPrunes(r, q) ==
  /\ pc[r] = "working" /\ phase[r][q] = "prune" /\ cmd[r][q] = Nothing
  /\ PrunesIn(r, q) = {}
  /\ phase' = [phase EXCEPT ![r][q] = "done"]
  /\ UNCHANGED <<clock, zfs, mutators, pc, plan, creates, prunes, cmd, failed, errors,
                 orphans, forecast, cache, history, counters>>

\* What a zfs command does when it succeeds, all of it or nothing: ZFS refuses
\* to destroy a held or cloned snapshot, and ignores names already gone.
Applies(c, name) ==
  \/ /\ c.op = "snapshot"
     /\ snaps' = snaps \cup {[cls |-> k, name |-> name, at |-> clock, managed |-> TRUE] :
                             k \in c.batch}
     /\ held' = held
  \/ /\ c.op = "destroy" /\ c.batch \cap held = {}
     /\ snaps' = snaps \ c.batch
     /\ held' = held

\* The snapshots changed under these runs.
Touch(others) == [r \in Runs |-> touched[r] \/ (r \in others /\ pc[r] # "idle")]

\* The command of a live run ends with success.
Succeeds(r, q) ==
  /\ cmd[r][q] # Nothing
  /\ Applies(cmd[r][q], number[r])
  /\ cmd' = [cmd EXCEPT ![r][q] = Nothing]
  /\ touched' = Touch(Runs \ {r})
  /\ exact' = FALSE
  /\ UNCHANGED <<clock, mutators, pc, plan, creates, prunes, phase, failed, errors,
                 orphans, forecast, cache, counters>>

\* Mutant: a failed command goes back to the queue.
FailsAndRetries(r, q) ==
  /\ cmd[r][q] # Nothing
  /\ cmd' = [cmd EXCEPT ![r][q] = Nothing]
  /\ errors' = [errors EXCEPT ![r] = TRUE]
  /\ creates' = [creates EXCEPT ![r] =
                   IF cmd[r][q].op = "snapshot" THEN @ \cup cmd[r][q].batch ELSE @]
  /\ UNCHANGED <<clock, zfs, mutators, pc, plan, prunes, phase, failed,
                 orphans, forecast, cache, history, counters>>

\* It fails, or cannot be spawned: the error is recorded, the rest of the pool
\* goes on, and a snapshot failure is remembered for the prune phase.
Fails(r, q) ==
  /\ cmd[r][q] # Nothing
  /\ cmd' = [cmd EXCEPT ![r][q] = Nothing]
  /\ errors' = [errors EXCEPT ![r] = TRUE]
  /\ failed' = [failed EXCEPT ![r] = IF cmd[r][q].op = "snapshot" THEN @ \cup {q} ELSE @]
  /\ UNCHANGED <<clock, zfs, mutators, pc, plan, creates, prunes, phase,
                 orphans, forecast, cache, history, counters>>

\* execute returns once every pool worker has.
Finish(r) ==
  /\ pc[r] = "working"
  /\ \A q \in Pools : phase[r][q] = "done"
  /\ pc' = [pc EXCEPT ![r] = "finished"]
  /\ UNCHANGED <<clock, zfs, mutators, plan, work, orphans, forecast, cache,
                 history, counters>>

\* Mutant: the cache is written whatever the report says.
WriteCacheAnyway(r) ==
  /\ pc[r] = "finished"
  /\ pc' = [pc EXCEPT ![r] = "cached"]
  /\ cache' = forecast[r] /\ exact' = ~touched[r]
  /\ UNCHANGED <<clock, zfs, mutators, plan, work, orphans, forecast, touched, counters>>

\* A successful run writes the status cache; failing to is only a warning.
WriteCache(r) ==
  /\ pc[r] = "finished" /\ ~errors[r]
  /\ pc' = [pc EXCEPT ![r] = "cached"]
  /\ \/ cache' = forecast[r] /\ exact' = ~touched[r]
     \/ UNCHANGED <<cache, exact>>
  /\ UNCHANGED <<clock, zfs, mutators, plan, work, orphans, forecast, touched, counters>>

\* The state of an invocation that is over, and of one that has not begun.
Reset(r) ==
  /\ pc' = [pc EXCEPT ![r] = "idle"]
  /\ mutators' = mutators \ {r}
  /\ scope' = [scope EXCEPT ![r] = "run"]
  /\ number' = [number EXCEPT ![r] = 0]
  /\ seen' = [seen EXCEPT ![r] = [snaps |-> {}, held |-> {}]]
  /\ planned' = [planned EXCEPT ![r] = 0]
  /\ creates' = [creates EXCEPT ![r] = {}]
  /\ prunes' = [prunes EXCEPT ![r] = {}]
  /\ phase' = [phase EXCEPT ![r] = [q \in Pools |-> "done"]]
  /\ cmd' = [cmd EXCEPT ![r] = [q \in Pools |-> Nothing]]
  /\ failed' = [failed EXCEPT ![r] = {}]
  /\ errors' = [errors EXCEPT ![r] = FALSE]
  /\ forecast' = [forecast EXCEPT ![r] = [d \in Datasets |-> 0]]
  /\ touched' = [touched EXCEPT ![r] = FALSE]

\* The end of run_zfs_command: the guard is dropped, with or without errors.
Release(r) ==
  /\ pc[r] = "cached" \/ (pc[r] = "finished" /\ errors[r])
  /\ Reset(r)
  /\ UNCHANGED <<clock, zfs, orphans, cache, exact, counters>>

\* Discovery or planning returns an error: nothing has been changed.
Abort(r) ==
  /\ pc[r] \in {"locked", "listed"}
  /\ Reset(r)
  /\ UNCHANGED <<clock, zfs, orphans, cache, exact, counters>>

\* The process is killed: its lock is released at once, the commands it has in
\* flight are killed with it (systemd kills the whole control group) or not.
Crash(r) ==
  /\ pc[r] # "idle"
  /\ Reset(r)
  /\ orphans' = IF OrphansSurvive
                THEN orphans \cup {[cmd |-> c, name |-> number[r]] :
                                   c \in {cmd[r][q] : q \in Pools} \ {Nothing}}
                ELSE orphans
  /\ UNCHANGED <<clock, zfs, cache, exact, counters>>

-----------------------------------------------------------------------------
(* Everyone else *)

\* A command that outlived its run ends, one way or the other.
OrphanEnds ==
  \E o \in orphans :
    /\ orphans' = orphans \ {o}
    /\ \/ /\ Applies(o.cmd, o.name)
          /\ touched' = Touch(Runs)
          /\ exact' = FALSE
       \/ UNCHANGED <<zfs, history>>
    /\ UNCHANGED <<clock, mutators, pc, plan, work, forecast, cache, counters>>

Tick ==
  /\ clock < MaxTime
  /\ clock' = clock + 1
  /\ UNCHANGED <<zfs, mutators, pc, plan, work, orphans, forecast, cache, history, counters>>

\* An administrator holds or clones a snapshot, or undoes it.
ToggleHold ==
  /\ admin < MaxAdmin /\ admin' = admin + 1
  /\ \E s \in snaps : held' = IF s \in held THEN held \ {s} ELSE held \cup {s}
  /\ UNCHANGED <<clock, snaps, mutators, pc, plan, work, orphans, forecast, cache,
                 history, runs>>

\* Another tool takes a snapshot whose name has the prefix and a kind, without
\* the managed property.
ManualSnapshot ==
  /\ admin < MaxAdmin /\ admin' = admin + 1
  /\ \E c \in Classes :
       snaps' = snaps \cup {[cls |-> c, name |-> 0, at |-> clock, managed |-> FALSE]}
  /\ touched' = Touch(Runs)
  /\ exact' = FALSE
  /\ UNCHANGED <<clock, held, mutators, pc, plan, work, orphans, forecast, cache, runs>>

\* What a live run does by itself, in order.
Step(r) ==
  \/ Discover(r) \/ Plan(r) \/ Finish(r) \/ WriteCache(r) \/ Release(r) \/ Abort(r)
  \/ \E q \in Pools :
       \/ SpawnSnapshot(r, q) \/ EndSnapshots(r, q)
       \/ SpawnDestroy(r, q) \/ EndPrunes(r, q)
       \/ Succeeds(r, q) \/ Fails(r, q)

Next ==
  \/ \E r \in Runs : Acquire(r) \/ Step(r) \/ Crash(r)
  \/ \E r \in Runs, q \in Pools : SnapshotHookFails(r, q) \/ PruneHookFails(r, q)
  \/ OrphanEnds \/ Tick \/ ToggleHold \/ ManualSnapshot

Spec == Init /\ [][Next]_vars

\* A live run is scheduled and its zfs commands end.
FairSpec == Spec /\ \A r \in Runs : WF_vars(Step(r))

-----------------------------------------------------------------------------
(* Properties *)

\* main.rs:241: the lock is held across discovery, planning and mutation "so
\* two invocations cannot race": no two of them ever snapshot the same class
\* for the same scheduled instant, whatever happens between their steps.
OnePerPeriod ==
  \A s, t \in {s \in snaps : s.managed} :
    /\ s.name # 0 /\ s.cls = t.cls
    /\ Preferred(s.cls, s.at) = Preferred(t.cls, t.at)
    => s = t

\* README.md:36: a prune leaves at least the configured number of the class's
\* own snapshots and only takes managed ones that are past the retention
\* window, also when it runs late, on a stale listing, or next to a command
\* that outlived its run.
RetentionFloor ==
  [][\A c \in Classes :
       LET gone == {s \in snaps \ snaps' : s.cls = c}
       IN gone # {} =>
            /\ \A s \in gone : s.managed /\ s.at + Window[c] < clock
            /\ Cardinality({s \in snaps' : s.cls = c /\ s.managed}) >= Keep[c]]_vars

\* A run that reports success has left every class it was to snapshot with a
\* snapshot of the latest scheduled instant it planned for.
SuccessMeansFresh ==
  \A r \in Runs :
    pc[r] = "finished" /\ ~errors[r] /\ scope[r] # "prune" =>
      \A c \in Classes : Keep[c] # 0 =>
        \E s \in snaps : s.cls = c /\ s.at >= Preferred(c, planned[r])

\* The counts that a successful run caches without listing again are those of
\* the snapshots that exist, unless somebody else changed them meanwhile.
CacheTruthful == exact => cache = Count(snaps)

\* The locked region is always left: a failed command is not tried again.
LockReleased == \A r \in Runs : r \in mutators ~> r \notin mutators
=============================================================================
