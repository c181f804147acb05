------------------------------ MODULE Inventory ------------------------------
(***************************************************************************)
(* What an invocation knows of ZFS and what it makes of it: Inventory::     *)
(* discover (src/zfs.rs), resolve_datasets (Resolve), build_plan            *)
(* (src/planner.rs), the commands of the plan, and the counts that          *)
(* StatusCache::from_inventory predicts from the listing and the plan       *)
(* (src/status.rs).  ZFS is listed by three commands, and others may create *)
(* and destroy datasets and snapshots between any two steps.                *)
(*                                                                         *)
(* A pool has the name of its root dataset.  The fields of a policy that    *)
(* matter here are autosnap, autoprune, prune_defer and, for each kind of   *)
(* snapshots, its retention.                                               *)
(***************************************************************************)
EXTENDS Resolve

CONSTANTS
  SnapshotKinds, \* SnapshotKind::ALL; fields of a policy
  Preferred,     \* [kind -> the instants it is scheduled for] (see Schedule)
  Period,        \* approximate_period_seconds
  Holdings,      \* what ZFS may hold at first: [datasets -> sets of snapshots]
  Capacities,    \* capacities of a pool, in percent
  MaxTime,       \* bounds the clock
  MaxChanges     \* bounds what others do

ASSUME InventoryAssumption ==
  /\ SnapshotKinds \subseteq Fields
  /\ {"autosnap", "autoprune", "prune_defer"} \subseteq Fields
  /\ IsFiniteSet(SnapshotKinds)
  /\ \A d \in Names : d # <<>>
  /\ \A h \in Holdings : /\ DOMAIN h \subseteq Names /\ IsFiniteSet(DOMAIN h)
                         /\ \A d \in DOMAIN h : IsFiniteSet(h[d])
  /\ Capacities \subseteq 0..100 /\ MaxTime \in Nat /\ MaxChanges \in Nat

VARIABLES
  zfs,       \* dataset -> its snapshots [kind, at, managed, protected]
  clock,
  changes,   \* steps of others so far
  touched,   \* history: datasets others changed since the listing began
  step,      \* of the invocation
  mode,      \* PlanScope, or "status"
  snapshots, \* Inventory::snapshots, by dataset
  pools,     \* Inventory::pools, pool -> its capacity
  plan,
  work,      \* datasets whose actions are left
  broken,    \* pools with an error
  cache      \* the status cache the last invocation has written, if it has

world == <<zfs, clock, changes, touched>>
listing == <<inventory, snapshots, pools>>
inventoryVars ==
  <<world, resolveVars, step, mode, snapshots, pools, plan, work, broken, cache>>

NoPlan == [snapshots |-> <<>>, prunes |-> <<>>, deferred |-> {}, protected |-> <<>>]
NoCache == [datasets |-> <<>>, pools |-> <<>>, totals |-> <<>>]

InventoryInit ==
  /\ config \in {c \in Configurations : Valid(c)}
  /\ inventory = {} /\ todo = {} /\ resolved = <<>> /\ failed = FALSE
  /\ zfs \in Holdings /\ clock = 0 /\ changes = 0 /\ touched = {}
  /\ step = "idle" /\ mode = "status"
  /\ snapshots = <<>> /\ pools = <<>>
  /\ plan = NoPlan /\ work = [snapshots |-> {}, prunes |-> {}] /\ broken = {}
  /\ cache = NoCache

GoOn(next) == step' = next

\* The invocation ends, and what it knew is gone.
Ends(next) ==
  /\ step' = next
  /\ inventory' = {} /\ todo' = {} /\ resolved' = <<>> /\ failed' = FALSE
  /\ snapshots' = <<>> /\ pools' = <<>>
  /\ plan' = NoPlan /\ work' = [snapshots |-> {}, prunes |-> {}] /\ broken' = {}
  /\ UNCHANGED <<world, config, mode>>

Begin ==
  /\ step \in {"idle", "written"}
  /\ clock' \in clock..MaxTime
  /\ mode' \in {"all", "snapshot", "prune", "status"}
  /\ GoOn("datasets")
  /\ touched' = {} /\ cache' = NoCache
  /\ UNCHANGED <<zfs, changes, resolveVars, snapshots, pools, plan, work, broken>>

-----------------------------------------------------------------------------
(* Inventory::discover *)

Configured == DOMAIN config.datasets
PoolOf(d) == Head(d)

\* What `zfs list -r` of the configured datasets shows; it fails when one of
\* them is missing.
Listed == {d \in DOMAIN zfs : \E root \in Configured : d = root \/ Below(d, root)}

\* Mutant: a missing dataset does not fail the command.
ListDatasetsAnyway ==
  /\ step = "datasets"
  /\ inventory' = Listed
  /\ GoOn("snapshots")
  /\ UNCHANGED <<world, config, todo, resolved, failed, mode, snapshots, pools, plan, work,
                 broken, cache>>

ListDatasets ==
  /\ step = "datasets" /\ Configured \subseteq DOMAIN zfs
  /\ inventory' = Listed
  /\ GoOn("snapshots")
  /\ UNCHANGED <<world, config, todo, resolved, failed, mode, snapshots, pools, plan, work,
                 broken, cache>>

\* A dataset without snapshots has no line in this listing.
ListSnapshots ==
  /\ step = "snapshots" /\ Configured \subseteq DOMAIN zfs
  /\ snapshots' = [d \in {d \in Listed : zfs[d] # {}} |-> zfs[d]]
  /\ GoOn("pools")
  /\ UNCHANGED <<world, resolveVars, mode, pools, plan, work, broken, cache>>

\* Resolution comes next, unless a status is asked for.
ListPools ==
  /\ step = "pools" /\ \A d \in Configured : <<PoolOf(d)>> \in DOMAIN zfs
  /\ pools' \in [{PoolOf(d) : d \in Configured} -> Capacities]
  /\ IF mode = "status" THEN GoOn("cache") /\ UNCHANGED todo
     ELSE GoOn("resolve") /\ todo' = Configured
  /\ UNCHANGED <<world, config, inventory, resolved, failed, mode, snapshots, plan, work,
                 broken, cache>>

\* A command fails, for a missing dataset or pool or for another reason, or its
\* output cannot be parsed.
DiscoverFails ==
  /\ step \in {"datasets", "snapshots", "pools"}
  /\ Ends("idle") /\ UNCHANGED cache

-----------------------------------------------------------------------------
(* build_plan *)

ResolveStep ==
  /\ step = "resolve"
  /\ ResolveNext
  /\ UNCHANGED <<world, step, mode, snapshots, pools, plan, work, broken, cache>>

Known(d) == IF d \in DOMAIN snapshots THEN snapshots[d] ELSE {}

\* snapshot_due: none of the kind, managed or not, since it was last scheduled.
DueKinds(d) ==
  {k \in SnapshotKinds :
     /\ resolved[d].policy[k] # 0
     /\ \A s \in Known(d) :
          s.kind = k => \E t \in Preferred[k] : s.at < t /\ t <= clock}

OfKind(d, k) == {s \in Known(d) : s.kind = k /\ s.managed}

Protected(d) == {s \in Known(d) : s.kind \in SnapshotKinds /\ s.managed /\ s.protected}

\* Oldest first, while more than the retention are left and past the window.
Excess(d, k) ==
  LET keep == resolved[d].policy[k]
      candidates == {s \in OfKind(d, k) : ~s.protected}
  IN  {s \in candidates : /\ Cardinality({t \in candidates : t.at > s.at}) >= keep
                          /\ s.at < clock - Period[k] * keep}

Deferred(d) ==
  LET policy == resolved[d].policy
  IN  policy.prune_defer > 0 /\ pools[PoolOf(d)] < policy.prune_defer

\* filter_plan
Filter(p) ==
  CASE mode = "all" -> p
    [] mode = "snapshot" -> [NoPlan EXCEPT !.snapshots = p.snapshots]
    [] mode = "prune" -> [p EXCEPT !.snapshots = <<>>]

\* build_plan at this instant.  The pool of a resolved dataset was listed.
BuildPlan ==
  /\ step = "resolve" /\ todo = {}
  /\ LET snapping == {d \in DOMAIN resolved : /\ resolved[d].policy.autosnap
                                             /\ resolved[d].strategy.how # "CoveredByRecursive"
                                             /\ DueKinds(d) # {}}
         pruning == {d \in DOMAIN resolved : resolved[d].policy.autoprune}
         excess(d) == UNION {Excess(d, k) : k \in SnapshotKinds}
         cleaning == {d \in pruning : ~Deferred(d)}
     IN  plan' = Filter(
           [snapshots |-> [d \in snapping |->
              [recursive |-> resolved[d].strategy.how = "RecursiveRoot", kinds |-> DueKinds(d)]],
            prunes |-> [d \in {d \in cleaning : excess(d) # {}} |-> excess(d)],
            deferred |-> pruning \ cleaning,
            protected |-> [d \in {d \in cleaning : Protected(d) # {}} |-> Protected(d)]])
  /\ work' = [snapshots |-> DOMAIN plan'.snapshots, prunes |-> DOMAIN plan'.prunes]
  /\ GoOn("execute")
  /\ UNCHANGED <<world, resolveVars, mode, snapshots, pools, broken, cache>>

-----------------------------------------------------------------------------
(* execute (see PoolExecutor for the batches and hooks) *)

Reached(d) ==
  {d} \cup {e \in DOMAIN zfs : plan.snapshots[d].recursive /\ Below(e, d)}

New(d) == [kind : plan.snapshots[d].kinds, at : {clock}, managed : {TRUE}, protected : {FALSE}]

Clash(d) ==
  \E e \in Reached(d) : \E s \in zfs[e] : s.at = clock /\ s.kind \in plan.snapshots[d].kinds

ExecuteSnapshot(d) ==
  /\ step = "execute" /\ d \in work.snapshots
  /\ d \in DOMAIN zfs /\ ~Clash(d)
  /\ zfs' = [e \in DOMAIN zfs |-> IF e \in Reached(d) THEN zfs[e] \cup New(d) ELSE zfs[e]]
  /\ work' = [work EXCEPT !.snapshots = @ \ {d}]
  /\ UNCHANGED <<clock, changes, touched, resolveVars, step, mode, snapshots, pools, plan,
                 broken, cache>>

\* The snapshots of a pool come first, and an error of theirs skips its prunes.
MayPrune(d) ==
  /\ step = "execute" /\ d \in work.prunes
  /\ \A e \in work.snapshots : PoolOf(e) # PoolOf(d)

ExecutePrune(d) ==
  /\ MayPrune(d) /\ PoolOf(d) \notin broken
  /\ d \in DOMAIN zfs /\ plan.prunes[d] \subseteq zfs[d]
  /\ zfs' = [zfs EXCEPT ![d] = @ \ plan.prunes[d]]
  /\ work' = [work EXCEPT !.prunes = @ \ {d}]
  /\ UNCHANGED <<clock, changes, touched, resolveVars, step, mode, snapshots, pools, plan,
                 broken, cache>>

\* A command fails, or is not issued any more.
ExecuteFails(d) ==
  /\ \/ step = "execute" /\ d \in work.snapshots /\ work' = [work EXCEPT !.snapshots = @ \ {d}]
     \/ MayPrune(d) /\ work' = [work EXCEPT !.prunes = @ \ {d}]
  /\ broken' = broken \cup {PoolOf(d)}
  /\ UNCHANGED <<world, resolveVars, step, mode, snapshots, pools, plan, cache>>

\* Only a run without errors goes on to the cache.
Executed ==
  /\ step = "execute" /\ work = [snapshots |-> {}, prunes |-> {}]
  /\ IF broken = {}
     THEN /\ GoOn("cache")
          /\ UNCHANGED <<world, resolveVars, mode, snapshots, pools, plan, work, broken, cache>>
     ELSE Ends("idle") /\ UNCHANGED cache

-----------------------------------------------------------------------------
(* StatusCache::from_inventory *)

Unlisted == -1   \* the capacity of a pool that is not in the listing

SaturatingMinus(a, b) == IF a >= b THEN a - b ELSE 0

\* How many snapshots an action takes of each dataset it reaches.
KindsOf == [root \in DOMAIN plan.snapshots |-> Cardinality(plan.snapshots[root].kinds)]

\* Mutant: a recursive action counts for its root alone.
TakenAtRoot(d) == SumFunctionOnSet(KindsOf, {root \in DOMAIN plan.snapshots : d = root})

\* How many snapshots the actions of the plan take of a dataset.
Taken(d) ==
  SumFunctionOnSet(KindsOf, {root \in DOMAIN plan.snapshots :
                               d = root \/ (plan.snapshots[root].recursive /\ Below(d, root))})

Counted(d, known) ==
  SaturatingMinus(Cardinality(known) + Taken(d),
                  IF d \in DOMAIN plan.prunes THEN Cardinality(plan.prunes[d]) ELSE 0)

\* The datasets of all listings; every action is about one of them.
DatasetNames == inventory \cup DOMAIN snapshots

Sums(datasets, names) ==
  [datasets |-> Cardinality(names),
   snapshots |-> SumFunctionOnSet([d \in DOMAIN datasets |-> datasets[d].snapshots], names),
   managed |-> SumFunctionOnSet([d \in DOMAIN datasets |-> datasets[d].managed], names)]

PoolNames == DOMAIN pools \cup {PoolOf(d) : d \in DatasetNames}

FromInventory ==
  LET datasets == [d \in DatasetNames |->
                     [pool |-> PoolOf(d),
                      snapshots |-> Counted(d, Known(d)),
                      managed |-> Counted(d, {s \in Known(d) : s.managed})]]
      members(p) == {d \in DatasetNames : datasets[d].pool = p}
  IN  [datasets |-> datasets,
       pools |-> [p \in PoolNames |->
                    [capacity |-> IF p \in DOMAIN pools THEN pools[p] ELSE Unlisted,
                     counts |-> Sums(datasets, members(p))]],
       totals |-> [pools |-> Cardinality(PoolNames), counts |-> Sums(datasets, DatasetNames)]]

\* validate
ValidCache(c) ==
  /\ \A p \in DOMAIN c.pools :
       /\ c.pools[p].counts.managed <= c.pools[p].counts.snapshots
       /\ c.pools[p].capacity <= 100
  /\ \A d \in DOMAIN c.datasets :
       /\ c.datasets[d].pool \in DOMAIN c.pools /\ c.datasets[d].pool = PoolOf(d)
       /\ c.datasets[d].managed <= c.datasets[d].snapshots
  /\ c.totals = [pools |-> Cardinality(DOMAIN c.pools),
                 counts |-> Sums(c.datasets, DOMAIN c.datasets)]
  /\ \A p \in DOMAIN c.pools :
       c.pools[p].counts = Sums(c.datasets, {d \in DOMAIN c.datasets : c.datasets[d].pool = p})

\* write_atomic starts with validate (see StatusCache for the rest).
WriteCache ==
  /\ step = "cache"
  /\ IF ValidCache(FromInventory)
     THEN Ends("written") /\ cache' = FromInventory
     ELSE Ends("idle") /\ UNCHANGED cache

-----------------------------------------------------------------------------
(* Others *)

Parent(d) == SubSeq(d, 1, Len(d) - 1)

Change(datasets, snaps) ==
  /\ changes < MaxChanges /\ changes' = changes + 1
  /\ zfs' = snaps
  /\ touched' = touched \cup datasets
  /\ UNCHANGED <<clock, resolveVars, step, mode, snapshots, pools, plan, work, broken, cache>>

CreateDataset(d) ==
  /\ d \notin DOMAIN zfs /\ Parent(d) \in DOMAIN zfs
  /\ Change({d}, [e \in DOMAIN zfs \cup {d} |-> IF e = d THEN {} ELSE zfs[e]])

DestroyDataset(d) ==
  LET gone == {e \in DOMAIN zfs : e = d \/ Below(e, d)}
  IN  d \in DOMAIN zfs /\ Change(gone, [e \in DOMAIN zfs \ gone |-> zfs[e]])

\* A snapshot by hand or by another tool, possibly with a name like zsnap's.
TakeOther(d, k) ==
  LET other == [kind |-> k, at |-> clock, managed |-> FALSE, protected |-> FALSE]
  IN  /\ d \in DOMAIN zfs /\ \A s \in zfs[d] : s.kind = k => s.at # clock
      /\ Change({d}, [zfs EXCEPT ![d] = @ \cup {other}])

DestroySnapshot(d, s) ==
  /\ d \in DOMAIN zfs /\ s \in zfs[d] /\ ~s.protected
  /\ Change({d}, [zfs EXCEPT ![d] = @ \ {s}])

Others ==
  \E d \in Names : \/ CreateDataset(d) \/ DestroyDataset(d)
                   \/ \E k \in SnapshotKinds \cup {"foreign"} : TakeOther(d, k)
                   \/ d \in DOMAIN zfs /\ \E s \in zfs[d] : DestroySnapshot(d, s)

-----------------------------------------------------------------------------

InventoryNext ==
  \/ Begin
  \/ ListDatasets \/ ListSnapshots \/ ListPools \/ DiscoverFails
  \/ ResolveStep \/ BuildPlan
  \/ \E d \in Names : ExecuteSnapshot(d) \/ ExecutePrune(d) \/ ExecuteFails(d)
  \/ Executed \/ WriteCache
  \/ Others

InventorySpec == InventoryInit /\ [][InventoryNext]_inventoryVars

-----------------------------------------------------------------------------
(* Properties *)

\* However the three listings disagree, a plan can be made of them and its
\* result is a cache that validate accepts: no run and no refresh ends with
\* "configured dataset .. does not exist in the ZFS inventory", "pool .. is
\* missing from the zpool inventory" or an error of validate.
TornListingAccepted ==
  /\ ~failed
  /\ step = "resolve" => {PoolOf(d) : d \in DOMAIN resolved} \subseteq DOMAIN pools
  /\ step = "cache" => ValidCache(FromInventory)

\* After a run without errors the cache tells the truth about every dataset that
\* others left alone since the listing began, whatever they did to the rest of
\* the pool: those a recursive snapshot of a parent reached, those only one of
\* the listings showed, and those out of scope, which it does not mention.
CountsTrue ==
  step = "written" =>
    \A d \in (DOMAIN zfs \cup DOMAIN cache.datasets) \ touched :
      IF d \in Listed
      THEN /\ d \in DOMAIN cache.datasets
           /\ cache.datasets[d].snapshots = Cardinality(zfs[d])
           /\ cache.datasets[d].managed = Cardinality({s \in zfs[d] : s.managed})
      ELSE d \notin DOMAIN cache.datasets
=============================================================================
