--------------------------- MODULE ZsnapRunProofs ---------------------------
(***************************************************************************)
(* Theorems about ZsnapRun for every set of runs, pools, datasets and      *)
(* classes, every retention and schedule.                                  *)
(*                                                                         *)
(* What makes the stale plans harmless is counted on the snapshots that no *)
(* command will touch: whatever is doomed, by a live run or by a command   *)
(* that outlived its run, or has vanished since it was listed, has at      *)
(* least Keep newer snapshots of its class that are neither (FloorKept).   *)
(* The lock is needed for the snapshots, not for the pruning: while a run  *)
(* has a class to snapshot, nobody else takes a managed snapshot of it     *)
(* (Behind).                                                               *)
(***************************************************************************)
EXTENDS ZsnapRun, FiniteSetTheorems, WellFoundedInduction, TLAPS

Destroys(c, s) == c.op = "destroy" /\ s \in c.batch
Takes(c, k) == c.op = "snapshot" /\ k \in c.batch

\* What a run will still snapshot and destroy.
ToTake(r, k) == k \in creates[r] \/ \E q \in Pools : Takes(cmd[r][q], k)
ToDestroy(r, s) == s \in prunes[r] \/ \E q \in Pools : Destroys(cmd[r][q], s)

\* What somebody will still destroy, if it exists.
Doomed ==
  {s \in Snapshot : (\E r \in Runs : ToDestroy(r, s)) \/ \E o \in orphans : Destroys(o.cmd, s)}

\* What a run will plan on although it is gone.
Vanished == {s \in Snapshot : \E r \in Runs : s \in seen[r].snaps \ snaps}

\* The snapshots that count against the retention of y's class.
Spared(y) == {t \in snaps \ Doomed : t.cls = y.cls /\ t.managed /\ Newer(t, y)}

-----------------------------------------------------------------------------
\* One run at a time is in the locked region.
Exclusive ==
  /\ \A p, q \in mutators : p = q
  /\ \A r \in Runs : pc[r] # "idle" => r \in mutators

\* Where the worker of a pool is says what it may have left to do.
Phases ==
  \A r \in Runs, q \in Pools :
    /\ pc[r] # "working" => phase[r][q] = "done"
    /\ phase[r][q] # "snapshot" => CreatesIn(r, q) = {} /\ cmd[r][q].op # "snapshot"
    /\ phase[r][q] = "done" => PrunesIn(r, q) = {} /\ cmd[r][q] = Nothing

\* A class that is being snapshotted is not waiting for it too, in any pool.
Once ==
  \A r \in Runs, q \in Pools : \A k \in Classes :
    Takes(cmd[r][q], k) => k \notin creates[r] /\ PoolOf[DatasetOf[k]] = q

\* A failed pool is an error of the run.
Noted == \A r \in Runs : failed[r] # {} => errors[r]

\* A plan is not made for the future, and has no class that is not kept.
Planned ==
  \A r \in Runs : /\ planned[r] <= clock
                  /\ \A k \in Classes : ToTake(r, k) => Keep[k] # 0

\* What is doomed is managed and past its window.
Aged == \A s \in Doomed : s.managed /\ s.at + Window[s.cls] < clock

\* What is doomed, or was when it vanished, has enough newer ones that are not.
FloorKept == \A y \in Doomed \cup Vanished : Cardinality(Spared(y)) >= Keep[y.cls]

\* Orphans are what a run may be disturbed by.
NoOrphans == ~OrphansSurvive => orphans = {}
Undisturbed(r) == ~OrphansSurvive \/ ~touched[r]

\* A listing that nobody has disturbed still has every managed snapshot, and if
\* it was not touched at all it is what exists.
Listed ==
  \A r \in Runs : pc[r] = "listed" =>
    /\ Undisturbed(r) => \A s \in snaps : s.managed => s \in seen[r].snaps
    /\ ~touched[r] => seen[r].snaps = snaps

\* A class that is still to be snapshotted has none since its instant.
Behind ==
  \A r \in Runs, k \in Classes : ToTake(r, k) /\ Undisturbed(r) =>
    \A s \in snaps : s.cls = k /\ s.managed => s.at < Preferred(k, planned[r])

\* A class that is not to be snapshotted any more has one, and it will stay.
Fresh ==
  \A r \in Runs : pc[r] \in {"working", "finished"} /\ ~errors[r] /\ scope[r] # "prune" =>
    \A k \in Classes : Keep[k] # 0 /\ ~ToTake(r, k) =>
      \E s \in snaps \ Doomed : s.cls = k /\ s.at >= Preferred(k, planned[r])

\* The counts of what exists, less what the run will destroy, and of what it
\* will take.
Rest(r, d) == Cardinality({s \in snaps : ~ToDestroy(r, s) /\ DatasetOf[s.cls] = d})
More(r, d) == Cardinality({k \in Classes : ToTake(r, k) /\ DatasetOf[k] = d})

\* What the forecast of an undisturbed run says.
Foretold ==
  \A r \in Runs : pc[r] \in {"working", "finished"} /\ ~errors[r] /\ ~touched[r] =>
    \A d \in Datasets : forecast[r][d] = Rest(r, d) + More(r, d)

Structure == Exclusive /\ Phases /\ Once /\ Noted /\ NoOrphans

IInv ==
  /\ TypeOK /\ Structure /\ Planned
  /\ Aged /\ FloorKept
  /\ Listed /\ Behind /\ Fresh /\ Foretold
  /\ (~OrphansSurvive => OnePerPeriod) /\ CacheTruthful

-----------------------------------------------------------------------------
(* What the operators do *)

\* There are finitely many snapshots, so all counts are numbers.
LEMMA SnapshotFinite == IsFiniteSet(Snapshot)
<1> DEFINE tuples == Classes \X ((0..MaxRuns) \X ((0..MaxTime) \X BOOLEAN))
           f == [u \in tuples |-> [cls |-> u[1], name |-> u[2][1], at |-> u[2][2][1],
                                   managed |-> u[2][2][2]]]
<1>1. IsFiniteSet(0..MaxRuns) /\ IsFiniteSet(0..MaxTime)
  BY ZsnapRunAssumption, FS_Interval
<1>2. IsFiniteSet(BOOLEAN)
  <2>1. IsFiniteSet({TRUE} \cup {FALSE})
    BY FS_Singleton, FS_Union
  <2>2. BOOLEAN = {TRUE} \cup {FALSE}
    OBVIOUS
  <2> QED BY <2>1, <2>2
<1>3. IsFiniteSet(tuples)
  BY <1>1, <1>2, FS_Product, ZsnapRunAssumption
<1>4. f \in Surjection(tuples, Snapshot)
  <2>1. f \in [tuples -> Snapshot]
    BY DEF Snapshot
  <2>2. ASSUME NEW s \in Snapshot PROVE \E u \in tuples : f[u] = s
    <3>1. <<s.cls, <<s.name, <<s.at, s.managed>>>>>> \in tuples
      BY DEF Snapshot
    <3>2. f[<<s.cls, <<s.name, <<s.at, s.managed>>>>>>] = s
      BY <3>1 DEF Snapshot
    <3> QED BY <3>1, <3>2
  <2> QED BY <2>1, <2>2 DEF Surjection
<1> QED BY <1>3, <1>4, FS_Surjection

\* The count of a set of snapshots, and of a part of it.
LEMMA Counts ==
  ASSUME NEW S \in SUBSET Snapshot, NEW T \in SUBSET S
  PROVE  /\ IsFiniteSet(S) /\ Cardinality(S) \in Nat
         /\ IsFiniteSet(T) /\ Cardinality(T) \in Nat
         /\ Cardinality(T) <= Cardinality(S)
BY SnapshotFinite, FS_Subset, FS_CardinalityType

\* Of any numbers there is a least one.
LEMMA Least ==
  ASSUME NEW S, S \subseteq Nat, S # {}
  PROVE  \E n \in S : \A m \in S : n <= m
<1>1. PICK n \in S : \A m \in S : <<m, n>> \notin OpToRel(<, Nat)
  BY NatLessThanWellFounded, WFMin
<1>2. ASSUME NEW m \in S PROVE n <= m
  <2>1. ~(m < n)
    BY <1>1 DEF OpToRel
  <2> QED BY <2>1
<1> QED BY <1>2

\* Of any snapshots there is a newest one.
LEMMA Newest ==
  ASSUME NEW B \in SUBSET Snapshot, B # {}
  PROVE  \E x \in B : \A y \in B : ~Newer(y, x)
<1> USE ZsnapRunAssumption DEF Snapshot
<1>1. PICK x \in B : \A y \in B : y.at <= x.at
  <2> DEFINE ages == {MaxTime - y.at : y \in B}
  <2>1. ages \subseteq Nat /\ ages # {}
    OBVIOUS
  <2>2. PICK n \in ages : \A m \in ages : n <= m
    BY <2>1, Least
  <2>3. PICK x \in B : n = MaxTime - x.at
    OBVIOUS
  <2>4. ASSUME NEW y \in B PROVE y.at <= x.at
    <3>1. MaxTime - x.at <= MaxTime - y.at
      BY <2>2, <2>3
    <3>2. x.at \in Int /\ y.at \in Int /\ MaxTime \in Int
      OBVIOUS
    <3> QED BY <3>1, <3>2
  <2> QED BY <2>3, <2>4
<1> DEFINE last == {y \in B : y.at = x.at}
           ranks == {MaxRuns - y.name : y \in last}
<1>2. ranks \subseteq Nat /\ ranks # {}
  OBVIOUS
<1>3. PICK n \in ranks : \A m \in ranks : n <= m
  BY <1>2, Least
<1>4. PICK z \in last : n = MaxRuns - z.name
  OBVIOUS
<1>5. ASSUME NEW y \in B PROVE ~Newer(y, z)
  <2>1. CASE y \in last
    <3>1. MaxRuns - z.name <= MaxRuns - y.name
      BY <1>3, <1>4, <2>1
    <3>2. z.name \in Int /\ y.name \in Int /\ MaxRuns \in Int /\ y.at = z.at /\ y.at \in Int
      BY <2>1
    <3> QED BY <3>1, <3>2 DEF Newer
  <2>2. CASE y \notin last
    <3>1. y.at <= z.at /\ y.at # z.at /\ y.at \in Int /\ z.at \in Int
      BY <1>1, <2>2
    <3> QED BY <3>1 DEF Newer
  <2> QED BY <2>1, <2>2
<1> QED BY <1>4, <1>5

\* What is newer than one of the newest is newer than the others.
LEMMA NewerThanAll ==
  ASSUME NEW t \in Snapshot, NEW x \in Snapshot, NEW y \in Snapshot,
         Newer(t, x), ~Newer(y, x)
  PROVE  Newer(t, y)
<1>1. {t.at, x.at, y.at, t.name, x.name, y.name} \subseteq Int
  BY DEF Snapshot
<1> QED BY <1>1 DEF Newer

\* The preferred instant of a time is not after it, and never goes back.
LEMMA PreferredLatest ==
  ASSUME NEW k \in Classes, NEW t \in Nat
  PROVE  /\ Preferred(k, t) \in Nat /\ Preferred(k, t) <= t
         /\ \A u \in Nat : t <= u => Preferred(k, t) <= Preferred(k, u)
<1> DEFINE past(u) == {b \in Boundaries[k] : b <= u}
           L(u) == Preferred(k, u)
<1>1. ASSUME NEW u \in Nat
      PROVE  L(u) \in past(u) /\ \A b \in past(u) : b <= L(u)
  <2> DEFINE ages == {u - b : b \in past(u)}
  <2>1. past(u) \subseteq Nat /\ past(u) # {}
    BY ZsnapRunAssumption
  <2>2. ages \subseteq Nat /\ ages # {}
    BY <2>1
  <2>3. PICK n \in ages : \A m \in ages : n <= m
    BY <2>2, Least
  <2>4. PICK x \in past(u) : n = u - x
    OBVIOUS
  <2>5. \A b \in past(u) : x >= b
    <3> TAKE b \in past(u)
    <3>1. u - x <= u - b
      BY <2>3, <2>4
    <3> QED BY <2>1, <3>1
  <2>6. L(u) = CHOOSE z \in past(u) : \A b \in past(u) : z >= b
    BY DEF Preferred, Max
  <2>7. L(u) \in past(u) /\ \A b \in past(u) : L(u) >= b
    BY <2>5, <2>6
  <2> QED BY <2>1, <2>7
<1>2. ASSUME NEW u \in Nat PROVE L(u) \in Nat /\ L(u) <= u
  BY <1>1, <1>2, ZsnapRunAssumption
<1>3. ASSUME NEW u \in Nat, t <= u PROVE L(t) <= L(u)
  <2>1. L(t) \in past(u)
    BY <1>1, <1>2, <1>3
  <2> QED BY <1>1, <2>1
<1> QED BY <1>2, <1>3

-----------------------------------------------------------------------------
(* Types *)

\* Before the first invocation every variable has its type.
LEMMA TypeInit == Init => TypeOK
<1> SUFFICES ASSUME Init PROVE TypeOK
  OBVIOUS
<1>1. Nothing \in Command
  BY DEF Command
<1>2. snaps \subseteq Snapshot /\ held \subseteq snaps
  BY ZsnapRunAssumption DEF Init
<1>3. /\ clock \in 0..MaxTime /\ runs \in 0..MaxRuns /\ admin \in 0..MaxAdmin
      /\ number \in [Runs -> 0..MaxRuns] /\ planned \in [Runs -> 0..MaxTime]
  BY ZsnapRunAssumption DEF Init
<1>4. seen \in [Runs -> [snaps : SUBSET Snapshot, held : SUBSET Snapshot]]
  BY DEF Init
<1>5. cmd \in [Runs -> [Pools -> Command]]
  BY <1>1 DEF Init
<1>6. /\ mutators \subseteq Runs /\ orphans \subseteq [cmd : Command, name : 0..MaxRuns]
      /\ pc \in [Runs -> {"idle", "locked", "listed", "working", "finished", "cached"}]
      /\ scope \in [Runs -> {"run", "snapshot", "prune"}]
  BY DEF Init, Lock!Init
<1>7. /\ creates \in [Runs -> SUBSET Classes] /\ prunes \in [Runs -> SUBSET Snapshot]
      /\ phase \in [Runs -> [Pools -> {"snapshot", "prune", "done"}]]
      /\ failed \in [Runs -> SUBSET Pools] /\ errors \in [Runs -> BOOLEAN]
  BY DEF Init
<1>8. /\ forecast \in [Runs -> [Datasets -> Nat]] /\ cache \in [Datasets -> Nat]
      /\ exact \in BOOLEAN /\ touched \in [Runs -> BOOLEAN]
  BY DEF Init
<1> QED BY <1>2, <1>3, <1>4, <1>5, <1>6, <1>7, <1>8 DEF TypeOK

\* The end of an invocation, whatever it was doing.
LEMMA ResetTypes ==
  ASSUME TypeOK, NEW r \in Runs, Reset(r), UNCHANGED <<clock, zfs, cache, exact, counters>>,
         orphans' \subseteq [cmd : Command, name : 0..MaxRuns]
  PROVE  TypeOK'
<1> USE DEF TypeOK, Reset
<1>1. Nothing \in Command /\ 0 \in 0..MaxRuns /\ 0 \in 0..MaxTime
  BY ZsnapRunAssumption DEF Command
<1>2. snaps' = snaps /\ held' = held /\ runs' = runs /\ admin' = admin
  BY DEF zfs, counters
<1>3. seen' \in [Runs -> [snaps : SUBSET Snapshot, held : SUBSET Snapshot]]
  OBVIOUS
<1>4. cmd' \in [Runs -> [Pools -> Command]]
  BY <1>1
<1>5. /\ mutators' \subseteq Runs
      /\ pc' \in [Runs -> {"idle", "locked", "listed", "working", "finished", "cached"}]
      /\ scope' \in [Runs -> {"run", "snapshot", "prune"}]
      /\ number' \in [Runs -> 0..MaxRuns] /\ planned' \in [Runs -> 0..MaxTime]
  BY <1>1
<1>6. /\ creates' \in [Runs -> SUBSET Classes] /\ prunes' \in [Runs -> SUBSET Snapshot]
      /\ phase' \in [Runs -> [Pools -> {"snapshot", "prune", "done"}]]
      /\ failed' \in [Runs -> SUBSET Pools] /\ errors' \in [Runs -> BOOLEAN]
  OBVIOUS
<1>7. forecast' \in [Runs -> [Datasets -> Nat]] /\ touched' \in [Runs -> BOOLEAN]
  OBVIOUS
<1> QED BY <1>2, <1>3, <1>4, <1>5, <1>6, <1>7

\* A command leaves snapshots behind.
LEMMA AppliesTypes ==
  ASSUME TypeOK, NEW c \in Command, NEW name \in 0..MaxRuns, Applies(c, name)
  PROVE  snaps' \subseteq Snapshot /\ held' \subseteq snaps'
<1>1. CASE c.op = "snapshot"
  <2>1. c.batch \subseteq Classes
    BY <1>1 DEF Command, Nothing
  <2>2. \A k \in c.batch : [cls |-> k, name |-> name, at |-> clock, managed |-> TRUE] \in Snapshot
    BY <2>1 DEF TypeOK, Snapshot
  <2> QED BY <1>1, <2>2 DEF Applies, TypeOK
<1>2. CASE c.op # "snapshot"
  BY <1>2 DEF Applies, TypeOK
<1> QED BY <1>1, <1>2

\* The plan of a run, and what it leaves of the others'.
LEMMA PlanFacts ==
  ASSUME TypeOK, NEW r \in Runs, Plan(r)
  PROVE  /\ \E deferred \in SUBSET Datasets :
              LET create == WantedSnapshots(r)
                  prune == WantedPrunes(r, deferred)
              IN  /\ creates'[r] = create /\ prunes'[r] = prune
                  /\ phase'[r] = Stages(create, prune)
                  /\ forecast'[r] = Forecast(seen[r].snaps, create, prune)
         /\ pc[r] = "listed" /\ pc'[r] = "working"
         /\ planned'[r] = clock /\ seen'[r].snaps = {}
         /\ \A p \in Runs \ {r} :
              /\ pc'[p] = pc[p] /\ seen'[p] = seen[p] /\ planned'[p] = planned[p]
              /\ creates'[p] = creates[p] /\ prunes'[p] = prunes[p]
              /\ phase'[p] = phase[p] /\ forecast'[p] = forecast[p]
         /\ UNCHANGED <<clock, snaps, held, mutators, scope, number, cmd, failed, errors,
                        orphans, cache, exact, touched, runs, admin>>
<1>1. PICK deferred \in SUBSET Datasets :
        /\ creates' = [creates EXCEPT ![r] = WantedSnapshots(r)]
        /\ prunes' = [prunes EXCEPT ![r] = WantedPrunes(r, deferred)]
        /\ phase' = [phase EXCEPT ![r] =
                       Stages(WantedSnapshots(r), WantedPrunes(r, deferred))]
        /\ forecast' = [forecast EXCEPT ![r] =
             Forecast(seen[r].snaps, WantedSnapshots(r), WantedPrunes(r, deferred))]
  BY DEF Plan
<1>2. /\ creates'[r] = WantedSnapshots(r) /\ prunes'[r] = WantedPrunes(r, deferred)
      /\ phase'[r] = Stages(WantedSnapshots(r), WantedPrunes(r, deferred))
      /\ forecast'[r] = Forecast(seen[r].snaps, WantedSnapshots(r), WantedPrunes(r, deferred))
      /\ \A p \in Runs \ {r} : /\ creates'[p] = creates[p] /\ prunes'[p] = prunes[p]
                              /\ phase'[p] = phase[p] /\ forecast'[p] = forecast[p]
  BY <1>1 DEF TypeOK
<1>3. /\ pc[r] = "listed" /\ pc'[r] = "working"
      /\ planned'[r] = clock /\ seen'[r].snaps = {}
      /\ \A p \in Runs \ {r} : /\ pc'[p] = pc[p] /\ seen'[p] = seen[p]
                              /\ planned'[p] = planned[p]
      /\ UNCHANGED <<clock, snaps, held, mutators, scope, number, cmd, failed, errors,
                     orphans, cache, exact, touched, runs, admin>>
  BY DEF Plan, TypeOK, zfs, history, counters
<1> QED BY <1>2, <1>3

\* The plan of a run has classes, snapshots and counts.
LEMMA PlanTypes ==
  ASSUME TypeOK, NEW r \in Runs, NEW deferred \in SUBSET Datasets
  PROVE  LET create == WantedSnapshots(r)
             prune == WantedPrunes(r, deferred)
         IN  /\ create \subseteq Classes /\ prune \subseteq Snapshot
             /\ Stages(create, prune) \in [Pools -> {"snapshot", "prune", "done"}]
             /\ Forecast(seen[r].snaps, create, prune) \in [Datasets -> Nat]
<1> DEFINE create == WantedSnapshots(r)
           prune == WantedPrunes(r, deferred)
<1> USE ZsnapRunAssumption DEF TypeOK
<1>1. create \subseteq Classes /\ prune \subseteq Snapshot
  <2>1. \A k \in Classes : Prunable(k, seen[r].snaps, seen[r].held, clock) \subseteq Snapshot
    BY DEF Prunable
  <2> QED BY <2>1 DEF WantedSnapshots, WantedPrunes
<1>2. Stages(create, prune) \in [Pools -> {"snapshot", "prune", "done"}]
  BY DEF Stages
<1>3. Forecast(seen[r].snaps, create, prune) \in [Datasets -> Nat]
  <2> HIDE DEF create, prune
  <2>1. ASSUME NEW d \in Datasets
        PROVE  Cardinality({k \in create : DatasetOf[k] = d}) \in Nat
    BY <1>1, FS_Subset, FS_CardinalityType
  <2>2. ASSUME NEW d \in Datasets
        PROVE  Cardinality({s \in seen[r].snaps \ prune : DatasetOf[s.cls] = d}) \in Nat
    <3>1. seen[r].snaps \ prune \in SUBSET Snapshot
      OBVIOUS
    <3> QED BY <3>1, Counts
  <2>3. \A m, n \in Nat : m + n \in Nat
    OBVIOUS
  <2> QED BY <2>1, <2>2, <2>3, Zenon DEF Forecast
<1> QED BY <1>1, <1>2, <1>3

\* No step, of a run, a command or an administrator, breaks a type.
LEMMA TypeStep == TypeOK /\ [Next]_vars => TypeOK'
<1> SUFFICES ASSUME TypeOK, [Next]_vars PROVE TypeOK'
  OBVIOUS
<1> USE ZsnapRunAssumption
    DEF TypeOK, zfs, plan, work, counters, history
<1>1. ASSUME NEW r \in Runs, Acquire(r) PROVE TypeOK'
  BY <1>1 DEF Acquire, Lock!Enter
<1>2. ASSUME NEW r \in Runs, Discover(r) PROVE TypeOK'
  BY <1>2 DEF Discover
<1>3. ASSUME NEW r \in Runs, Plan(r) PROVE TypeOK'
  <2>1. seen' \in [Runs -> [snaps : SUBSET Snapshot, held : SUBSET Snapshot]]
    BY <1>3 DEF Plan
  <2>2. PICK deferred \in SUBSET Datasets :
          /\ creates' = [creates EXCEPT ![r] = WantedSnapshots(r)]
          /\ prunes' = [prunes EXCEPT ![r] = WantedPrunes(r, deferred)]
          /\ phase' = [phase EXCEPT ![r] =
                         Stages(WantedSnapshots(r), WantedPrunes(r, deferred))]
          /\ forecast' = [forecast EXCEPT ![r] =
               Forecast(seen[r].snaps, WantedSnapshots(r), WantedPrunes(r, deferred))]
    BY <1>3 DEF Plan
  <2>3. /\ creates' \in [Runs -> SUBSET Classes] /\ prunes' \in [Runs -> SUBSET Snapshot]
        /\ phase' \in [Runs -> [Pools -> {"snapshot", "prune", "done"}]]
        /\ forecast' \in [Runs -> [Datasets -> Nat]]
    BY <2>2, PlanTypes
  <2> QED BY <1>3, <2>1, <2>3 DEF Plan
<1>4. ASSUME NEW r \in Runs, Finish(r) PROVE TypeOK'
  BY <1>4 DEF Finish
<1>5. ASSUME NEW r \in Runs, WriteCache(r) PROVE TypeOK'
  <2>1. forecast[r] \in [Datasets -> Nat] /\ (~touched[r]) \in BOOLEAN
    OBVIOUS
  <2>2. cache' \in {cache, forecast[r]} /\ exact' \in {exact, ~touched[r]}
    BY <1>5 DEF WriteCache
  <2> QED BY <1>5, <2>1, <2>2 DEF WriteCache
<1>6. ASSUME NEW r \in Runs, Release(r) PROVE TypeOK'
  BY <1>6, ResetTypes DEF Release
<1>7. ASSUME NEW r \in Runs, Abort(r) PROVE TypeOK'
  BY <1>7, ResetTypes DEF Abort
<1>8. ASSUME NEW r \in Runs, Crash(r) PROVE TypeOK'
  <2>1. orphans' \subseteq [cmd : Command, name : 0..MaxRuns]
    BY <1>8 DEF Crash
  <2> QED BY <1>8, <2>1, ResetTypes DEF Crash
<1>9. ASSUME NEW r \in Runs, NEW q \in Pools, SpawnSnapshot(r, q) PROVE TypeOK'
  <2>1. PICK batch \in SUBSET Classes :
          /\ cmd' = [cmd EXCEPT ![r][q] = [op |-> "snapshot", batch |-> batch]]
          /\ creates' = [creates EXCEPT ![r] = @ \ batch]
    BY <1>9 DEF SpawnSnapshot, CreatesIn
  <2>2. cmd' \in [Runs -> [Pools -> Command]] /\ creates' \in [Runs -> SUBSET Classes]
    BY <2>1 DEF Command
  <2> QED BY <1>9, <2>2 DEF SpawnSnapshot
<1>10. ASSUME NEW r \in Runs, NEW q \in Pools, SnapshotHookFails(r, q) PROVE TypeOK'
  BY <1>10 DEF SnapshotHookFails
<1>11. ASSUME NEW r \in Runs, NEW q \in Pools, EndSnapshots(r, q) PROVE TypeOK'
  BY <1>11 DEF EndSnapshots
<1>12. ASSUME NEW r \in Runs, NEW q \in Pools, SpawnDestroy(r, q) PROVE TypeOK'
  <2>1. PICK batch \in SUBSET Snapshot :
          /\ cmd' = [cmd EXCEPT ![r][q] = [op |-> "destroy", batch |-> batch]]
          /\ prunes' = [prunes EXCEPT ![r] = @ \ batch]
    BY <1>12 DEF SpawnDestroy, PrunesIn
  <2>2. cmd' \in [Runs -> [Pools -> Command]] /\ prunes' \in [Runs -> SUBSET Snapshot]
    BY <2>1 DEF Command
  <2> QED BY <1>12, <2>2 DEF SpawnDestroy
<1>13. ASSUME NEW r \in Runs, NEW q \in Pools, PruneHookFails(r, q) PROVE TypeOK'
  BY <1>13 DEF PruneHookFails
<1>14. ASSUME NEW r \in Runs, NEW q \in Pools, EndPrunes(r, q) PROVE TypeOK'
  BY <1>14 DEF EndPrunes
<1>15. ASSUME NEW r \in Runs, NEW q \in Pools, Succeeds(r, q) PROVE TypeOK'
  <2>1. snaps' \subseteq Snapshot /\ held' \subseteq snaps'
    BY <1>15, AppliesTypes DEF Succeeds
  <2>2. cmd' \in [Runs -> [Pools -> Command]]
    BY <1>15 DEF Succeeds, Command
  <2> QED BY <1>15, <2>1, <2>2 DEF Succeeds, Touch
<1>16. ASSUME NEW r \in Runs, NEW q \in Pools, Fails(r, q) PROVE TypeOK'
  <2>1. cmd' \in [Runs -> [Pools -> Command]]
    BY <1>16 DEF Fails, Command
  <2> QED BY <1>16, <2>1 DEF Fails
<1>17. CASE OrphanEnds
  <2>1. PICK o \in orphans :
          /\ orphans' = orphans \ {o}
          /\ \/ Applies(o.cmd, o.name) /\ touched' = Touch(Runs) /\ exact' = FALSE
             \/ UNCHANGED <<snaps, held, exact, touched>>
    BY <1>17 DEF OrphanEnds
  <2>2. snaps' \subseteq Snapshot /\ held' \subseteq snaps'
    BY <2>1, AppliesTypes
  <2>3. touched' \in [Runs -> BOOLEAN] /\ exact' \in BOOLEAN
    BY <2>1 DEF Touch
  <2> QED BY <1>17, <2>1, <2>2, <2>3 DEF OrphanEnds
<1>18. CASE Tick
  BY <1>18 DEF Tick
<1>19. CASE ToggleHold
  BY <1>19 DEF ToggleHold
<1>20. CASE ManualSnapshot
  <2>1. PICK k \in Classes :
          snaps' = snaps \cup {[cls |-> k, name |-> 0, at |-> clock, managed |-> FALSE]}
    BY <1>20 DEF ManualSnapshot
  <2>2. [cls |-> k, name |-> 0, at |-> clock, managed |-> FALSE] \in Snapshot
    BY DEF Snapshot
  <2>3. snaps' \subseteq Snapshot /\ held \subseteq snaps'
    BY <2>1, <2>2
  <2>4. touched' \in [Runs -> BOOLEAN] /\ exact' \in BOOLEAN
    BY <1>20 DEF ManualSnapshot, Touch
  <2> QED BY <1>20, <2>3, <2>4 DEF ManualSnapshot
<1>21. CASE UNCHANGED vars
  BY <1>21 DEF vars
<1> QED
  BY <1>1, <1>2, <1>3, <1>4, <1>5, <1>6, <1>7, <1>8, <1>9, <1>10, <1>11, <1>12, <1>13,
     <1>14, <1>15, <1>16, <1>17, <1>18, <1>19, <1>20, <1>21 DEF Next, Step

-----------------------------------------------------------------------------
(* The structure of a run *)

\* Before the first invocation nobody is in the locked region.
LEMMA StructureInit == Init => Structure
BY DEF Init, Lock!Init, Structure, Exclusive, Phases, Once, Noted, NoOrphans, CreatesIn,
       PrunesIn, Nothing, Takes

\* What Reset leaves of the run, and of the others.
LEMMA ResetFrame ==
  ASSUME TypeOK, NEW r \in Runs, Reset(r)
  PROVE  /\ mutators' = mutators \ {r} /\ pc'[r] = "idle"
         /\ seen'[r].snaps = {} /\ creates'[r] = {} /\ prunes'[r] = {} /\ failed'[r] = {}
         /\ planned'[r] = 0
         /\ \A q \in Pools : phase'[r][q] = "done" /\ cmd'[r][q] = Nothing
         /\ \A p \in Runs \ {r} :
              /\ pc'[p] = pc[p] /\ seen'[p] = seen[p] /\ planned'[p] = planned[p]
              /\ creates'[p] = creates[p] /\ prunes'[p] = prunes[p] /\ phase'[p] = phase[p]
              /\ cmd'[p] = cmd[p] /\ failed'[p] = failed[p] /\ errors'[p] = errors[p]
              /\ number'[p] = number[p] /\ scope'[p] = scope[p]
              /\ forecast'[p] = forecast[p] /\ touched'[p] = touched[p]
BY DEF Reset, TypeOK

\* The end of an invocation, by Release, Abort or Crash, leaves the others in order.
LEMMA StructureReset ==
  ASSUME TypeOK, Structure, NEW r \in Runs, Reset(r), NoOrphans'
  PROVE  Structure'
<1>1. Exclusive'
  BY ResetFrame DEF Structure, Exclusive
<1>2. Phases'
  BY ResetFrame DEF Structure, Phases, CreatesIn, PrunesIn, Nothing
<1>3. Once'
  BY ResetFrame DEF Structure, Once, Takes, Nothing
<1>4. Noted'
  BY ResetFrame DEF Structure, Noted
<1> QED BY <1>1, <1>2, <1>3, <1>4 DEF Structure

\* The lock keeps runs apart, and the worker of a pool goes through its phases.
LEMMA StructureStep == TypeOK /\ Structure /\ [Next]_vars => Structure'
<1> SUFFICES ASSUME TypeOK, Structure, [Next]_vars PROVE Structure'
  OBVIOUS
<1> USE ZsnapRunAssumption
    DEF Structure, Exclusive, Phases, Once, Noted, NoOrphans,
        TypeOK, zfs, plan, work, counters, history, CreatesIn, PrunesIn, Takes, Nothing
<1>1. ASSUME NEW r \in Runs, Acquire(r) PROVE Structure'
  BY <1>1 DEF Acquire, Lock!Enter
<1>2. ASSUME NEW r \in Runs, Discover(r) PROVE Structure'
  BY <1>2 DEF Discover
<1>3. ASSUME NEW r \in Runs, Plan(r) PROVE Structure'
  <2>1. PICK deferred \in SUBSET Datasets :
          phase'[r] = Stages(WantedSnapshots(r), WantedPrunes(r, deferred))
          /\ creates'[r] = WantedSnapshots(r) /\ prunes'[r] = WantedPrunes(r, deferred)
    BY <1>3, PlanFacts
  <2>2. \A q \in Pools : cmd[r][q] = Nothing
    BY <1>3, PlanFacts
  <2>3. \A q \in Pools : /\ phase'[r][q] # "snapshot" => CreatesIn(r, q)' = {}
                         /\ phase'[r][q] = "done" => PrunesIn(r, q)' = {}
    BY <2>1 DEF Stages
  <2>4. /\ pc[r] = "listed" /\ pc'[r] = "working"
        /\ UNCHANGED <<mutators, cmd, failed, errors, orphans>>
        /\ \A p \in Runs \ {r} : /\ pc'[p] = pc[p] /\ creates'[p] = creates[p]
                                /\ prunes'[p] = prunes[p] /\ phase'[p] = phase[p]
    BY <1>3, PlanFacts
  <2>5. Exclusive' /\ Noted' /\ NoOrphans'
    BY <2>4
  <2>6. Once'
    <3> SUFFICES ASSUME NEW p \in Runs, NEW q \in Pools, NEW k \in Classes,
                        Takes(cmd[p][q], k)
                 PROVE  k \notin creates'[p] /\ PoolOf[DatasetOf[k]] = q
      BY <2>4
    <3>1. p # r
      BY <2>2
    <3> QED BY <2>4, <3>1
  <2>7. Phases'
    <3> SUFFICES ASSUME NEW p \in Runs, NEW q \in Pools
                 PROVE  /\ pc'[p] # "working" => phase'[p][q] = "done"
                        /\ phase'[p][q] # "snapshot" =>
                             CreatesIn(p, q)' = {} /\ cmd'[p][q].op # "snapshot"
                        /\ phase'[p][q] = "done" => PrunesIn(p, q)' = {} /\ cmd'[p][q] = Nothing
      OBVIOUS
    <3>1. CASE p = r
      BY <2>2, <2>3, <2>4, <3>1
    <3>2. CASE p # r
      BY <2>4, <3>2
    <3> QED BY <3>1, <3>2
  <2> QED BY <2>5, <2>6, <2>7
<1>4. ASSUME NEW r \in Runs, Finish(r) PROVE Structure'
  BY <1>4 DEF Finish
<1>5. ASSUME NEW r \in Runs, WriteCache(r) PROVE Structure'
  BY <1>5 DEF WriteCache
<1>6. ASSUME NEW r \in Runs, Release(r) PROVE Structure'
  BY <1>6, StructureReset DEF Release
<1>7. ASSUME NEW r \in Runs, Abort(r) PROVE Structure'
  BY <1>7, StructureReset DEF Abort
<1>8. ASSUME NEW r \in Runs, Crash(r) PROVE Structure'
  BY <1>8, StructureReset DEF Crash
<1>9. ASSUME NEW r \in Runs, NEW q \in Pools, SpawnSnapshot(r, q) PROVE Structure'
  BY <1>9 DEF SpawnSnapshot
<1>10. ASSUME NEW r \in Runs, NEW q \in Pools, SnapshotHookFails(r, q) PROVE Structure'
  BY <1>10 DEF SnapshotHookFails
<1>11. ASSUME NEW r \in Runs, NEW q \in Pools, EndSnapshots(r, q) PROVE Structure'
  BY <1>11 DEF EndSnapshots
<1>12. ASSUME NEW r \in Runs, NEW q \in Pools, SpawnDestroy(r, q) PROVE Structure'
  BY <1>12 DEF SpawnDestroy
<1>13. ASSUME NEW r \in Runs, NEW q \in Pools, PruneHookFails(r, q) PROVE Structure'
  BY <1>13 DEF PruneHookFails
<1>14. ASSUME NEW r \in Runs, NEW q \in Pools, EndPrunes(r, q) PROVE Structure'
  BY <1>14 DEF EndPrunes
<1>15. ASSUME NEW r \in Runs, NEW q \in Pools, Succeeds(r, q) PROVE Structure'
  BY <1>15 DEF Succeeds
<1>16. ASSUME NEW r \in Runs, NEW q \in Pools, Fails(r, q) PROVE Structure'
  BY <1>16 DEF Fails
<1>17. CASE OrphanEnds
  BY <1>17 DEF OrphanEnds
<1>18. CASE Tick
  BY <1>18 DEF Tick
<1>19. CASE ToggleHold
  BY <1>19 DEF ToggleHold
<1>20. CASE ManualSnapshot
  BY <1>20 DEF ManualSnapshot
<1>21. CASE UNCHANGED vars
  BY <1>21 DEF vars
<1> QED
  BY <1>1, <1>2, <1>3, <1>4, <1>5, <1>6, <1>7, <1>8, <1>9, <1>10, <1>11, <1>12, <1>13,
     <1>14, <1>15, <1>16, <1>17, <1>18, <1>19, <1>20, <1>21 DEF Next, Step

-----------------------------------------------------------------------------
(* What a step may do to the others' plans *)

Plans == \E r \in Runs : Plan(r)

\* Nothing is to be taken or destroyed that was not, except by planning.
NoNewWork ==
  /\ \A p \in Runs, s \in Snapshot : ToDestroy(p, s)' => ToDestroy(p, s)
  /\ \A p \in Runs, k \in Classes : ToTake(p, k)' => ToTake(p, k)
  /\ \A o \in orphans' : o \in orphans \/ \E p \in Runs, q \in Pools : o.cmd = cmd[p][q]

\* What disappears was doomed, and a listing is of what exists.
NoSurprise ==
  /\ clock <= clock'
  /\ snaps \ snaps' \subseteq Doomed
  /\ \A p \in Runs : \/ seen'[p].snaps \subseteq seen[p].snaps
                     \/ seen'[p].snaps = snaps'
  /\ \A p \in Runs : planned'[p] \in {planned[p], 0}

\* An invocation that ends leaves no more to do than it had in flight.
LEMMA WorkReset ==
  ASSUME TypeOK, NEW r \in Runs, Reset(r),
         \A o \in orphans' : o \in orphans \/ \E p \in Runs, q \in Pools : o.cmd = cmd[p][q]
  PROVE  NoNewWork
BY ResetFrame DEF NoNewWork, ToDestroy, ToTake, Destroys, Takes, Nothing

\* Only a plan gives a run something to snapshot or destroy.
LEMMA WorkStep == TypeOK /\ [Next]_vars => Plans \/ NoNewWork
<1> SUFFICES ASSUME TypeOK, [Next]_vars, ~Plans PROVE NoNewWork
  OBVIOUS
<1> USE DEF NoNewWork, TypeOK, work, CreatesIn, PrunesIn, ToDestroy, ToTake, Destroys, Takes,
            Nothing
<1>1. ASSUME NEW r \in Runs, Acquire(r) PROVE NoNewWork
  BY <1>1 DEF Acquire
<1>2. ASSUME NEW r \in Runs, Discover(r) PROVE NoNewWork
  BY <1>2 DEF Discover
<1>3. ASSUME NEW r \in Runs, Finish(r) PROVE NoNewWork
  BY <1>3 DEF Finish
<1>4. ASSUME NEW r \in Runs, WriteCache(r) PROVE NoNewWork
  BY <1>4 DEF WriteCache
<1>5. ASSUME NEW r \in Runs, Release(r) PROVE NoNewWork
  BY <1>5, WorkReset DEF Release
<1>6. ASSUME NEW r \in Runs, Abort(r) PROVE NoNewWork
  BY <1>6, WorkReset DEF Abort
<1>7. ASSUME NEW r \in Runs, Crash(r) PROVE NoNewWork
  <2>1. \A o \in orphans' : o \in orphans \/ \E p \in Runs, q \in Pools : o.cmd = cmd[p][q]
    BY <1>7 DEF Crash
  <2> QED BY <1>7, <2>1, WorkReset DEF Crash
<1>8. ASSUME NEW r \in Runs, NEW q \in Pools, SpawnSnapshot(r, q) PROVE NoNewWork
  BY <1>8 DEF SpawnSnapshot
<1>9. ASSUME NEW r \in Runs, NEW q \in Pools, SnapshotHookFails(r, q) PROVE NoNewWork
  BY <1>9 DEF SnapshotHookFails
<1>10. ASSUME NEW r \in Runs, NEW q \in Pools, EndSnapshots(r, q) PROVE NoNewWork
  BY <1>10 DEF EndSnapshots
<1>11. ASSUME NEW r \in Runs, NEW q \in Pools, SpawnDestroy(r, q) PROVE NoNewWork
  BY <1>11 DEF SpawnDestroy
<1>12. ASSUME NEW r \in Runs, NEW q \in Pools, PruneHookFails(r, q) PROVE NoNewWork
  BY <1>12 DEF PruneHookFails
<1>13. ASSUME NEW r \in Runs, NEW q \in Pools, EndPrunes(r, q) PROVE NoNewWork
  BY <1>13 DEF EndPrunes
<1>14. ASSUME NEW r \in Runs, NEW q \in Pools, Succeeds(r, q) PROVE NoNewWork
  BY <1>14 DEF Succeeds
<1>15. ASSUME NEW r \in Runs, NEW q \in Pools, Fails(r, q) PROVE NoNewWork
  BY <1>15 DEF Fails
<1>16. CASE OrphanEnds
  BY <1>16 DEF OrphanEnds
<1>17. CASE Tick
  BY <1>17 DEF Tick
<1>18. CASE ToggleHold
  BY <1>18 DEF ToggleHold
<1>19. CASE ManualSnapshot
  BY <1>19 DEF ManualSnapshot
<1>20. CASE UNCHANGED vars
  BY <1>20 DEF vars
<1> QED
  BY <1>1, <1>2, <1>3, <1>4, <1>5, <1>6, <1>7, <1>8, <1>9, <1>10, <1>11, <1>12, <1>13,
     <1>14, <1>15, <1>16, <1>17, <1>18, <1>19, <1>20 DEF Next, Step, Plans

\* An invocation that ends takes no snapshot with it.
LEMMA SurpriseReset ==
  ASSUME TypeOK, NEW r \in Runs, Reset(r), UNCHANGED <<clock, snaps>>
  PROVE  NoSurprise
<1>1. clock <= clock' /\ snaps \ snaps' \subseteq Doomed
  BY DEF TypeOK
<1>2. ASSUME NEW p \in Runs
      PROVE  seen'[p].snaps \subseteq seen[p].snaps /\ planned'[p] \in {planned[p], 0}
  <2>1. CASE p = r
    BY <2>1, ResetFrame
  <2>2. CASE p # r
    BY <2>2, ResetFrame
  <2> QED BY <2>1, <2>2
<1> QED BY <1>1, <1>2 DEF NoSurprise

\* A command destroys what was doomed.
LEMMA AppliesDoomed ==
  ASSUME TypeOK, NEW c \in Command, NEW name \in 0..MaxRuns, Applies(c, name),
         \A s \in Snapshot : Destroys(c, s) => s \in Doomed
  PROVE  snaps \ snaps' \subseteq Doomed
BY DEF Applies, Destroys, TypeOK

\* A snapshot only disappears by a command that was to destroy it.
LEMMA SurpriseStep == TypeOK /\ [Next]_vars => Plans \/ NoSurprise
<1> SUFFICES ASSUME TypeOK, [Next]_vars, ~Plans PROVE NoSurprise
  OBVIOUS
<1> USE ZsnapRunAssumption DEF NoSurprise, TypeOK, zfs, plan
<1>1. ASSUME NEW r \in Runs, Acquire(r) PROVE NoSurprise
  BY <1>1 DEF Acquire
<1>2. ASSUME NEW r \in Runs, Discover(r) PROVE NoSurprise
  BY <1>2 DEF Discover
<1>3. ASSUME NEW r \in Runs, Finish(r) PROVE NoSurprise
  BY <1>3 DEF Finish
<1>4. ASSUME NEW r \in Runs, WriteCache(r) PROVE NoSurprise
  BY <1>4 DEF WriteCache
<1>5. ASSUME NEW r \in Runs, Release(r) PROVE NoSurprise
  BY <1>5, SurpriseReset DEF Release
<1>6. ASSUME NEW r \in Runs, Abort(r) PROVE NoSurprise
  BY <1>6, SurpriseReset DEF Abort
<1>7. ASSUME NEW r \in Runs, Crash(r) PROVE NoSurprise
  BY <1>7, SurpriseReset DEF Crash
<1>8. ASSUME NEW r \in Runs, NEW q \in Pools, SpawnSnapshot(r, q) PROVE NoSurprise
  BY <1>8 DEF SpawnSnapshot
<1>9. ASSUME NEW r \in Runs, NEW q \in Pools, SnapshotHookFails(r, q) PROVE NoSurprise
  BY <1>9 DEF SnapshotHookFails
<1>10. ASSUME NEW r \in Runs, NEW q \in Pools, EndSnapshots(r, q) PROVE NoSurprise
  BY <1>10 DEF EndSnapshots
<1>11. ASSUME NEW r \in Runs, NEW q \in Pools, SpawnDestroy(r, q) PROVE NoSurprise
  BY <1>11 DEF SpawnDestroy
<1>12. ASSUME NEW r \in Runs, NEW q \in Pools, PruneHookFails(r, q) PROVE NoSurprise
  BY <1>12 DEF PruneHookFails
<1>13. ASSUME NEW r \in Runs, NEW q \in Pools, EndPrunes(r, q) PROVE NoSurprise
  BY <1>13 DEF EndPrunes
<1>14. ASSUME NEW r \in Runs, NEW q \in Pools, Succeeds(r, q) PROVE NoSurprise
  <2>1. \A s \in Snapshot : Destroys(cmd[r][q], s) => s \in Doomed
    BY DEF Doomed, ToDestroy
  <2>2. cmd[r][q] \in Command /\ number[r] \in 0..MaxRuns /\ Applies(cmd[r][q], number[r])
    BY <1>14 DEF Succeeds
  <2>3. snaps \ snaps' \subseteq Doomed
    BY <2>1, <2>2, AppliesDoomed
  <2> QED BY <1>14, <2>3 DEF Succeeds
<1>15. ASSUME NEW r \in Runs, NEW q \in Pools, Fails(r, q) PROVE NoSurprise
  BY <1>15 DEF Fails
<1>16. CASE OrphanEnds
  <2>1. PICK o \in orphans : Applies(o.cmd, o.name) \/ UNCHANGED snaps
    BY <1>16 DEF OrphanEnds
  <2>2. \A s \in Snapshot : Destroys(o.cmd, s) => s \in Doomed
    BY DEF Doomed
  <2>3. snaps \ snaps' \subseteq Doomed
    BY <2>1, <2>2, AppliesDoomed
  <2> QED BY <1>16, <2>3 DEF OrphanEnds
<1>17. CASE Tick
  BY <1>17 DEF Tick
<1>18. CASE ToggleHold
  BY <1>18 DEF ToggleHold
<1>19. CASE ManualSnapshot
  BY <1>19 DEF ManualSnapshot
<1>20. CASE UNCHANGED vars
  BY <1>20 DEF vars
<1> QED
  BY <1>1, <1>2, <1>3, <1>4, <1>5, <1>6, <1>7, <1>8, <1>9, <1>10, <1>11, <1>12, <1>13,
     <1>14, <1>15, <1>16, <1>17, <1>18, <1>19, <1>20 DEF Next, Step, Plans

-----------------------------------------------------------------------------
(* Retention *)

\* Without a new plan, fewer snapshots are doomed and those spared stay.
LEMMA SparedStay ==
  ASSUME TypeOK, TypeOK', NoNewWork, NoSurprise
  PROVE  /\ Doomed' \subseteq Doomed
         /\ snaps \ Doomed \subseteq snaps' \ Doomed'
         /\ Vanished' \subseteq Vanished \cup Doomed
         /\ \A y \in Snapshot : Spared(y) \subseteq Spared(y)'
<1>1. Doomed' \subseteq Doomed
  <2> SUFFICES ASSUME NEW s \in Doomed' PROVE s \in Doomed
    OBVIOUS
  <2>1. s \in Snapshot
    BY DEF Doomed
  <2>2. CASE \E p \in Runs : ToDestroy(p, s)'
    BY <2>1, <2>2 DEF NoNewWork, Doomed
  <2>3. CASE \E o \in orphans' : Destroys(o.cmd, s)
    BY <2>1, <2>3 DEF NoNewWork, Doomed, ToDestroy
  <2> QED BY <2>2, <2>3 DEF Doomed
<1>2. snaps \ Doomed \subseteq snaps' \ Doomed'
  BY <1>1 DEF NoSurprise
<1>3. Vanished' \subseteq Vanished \cup Doomed
  <2> SUFFICES ASSUME NEW s \in Snapshot, NEW p \in Runs, s \in seen'[p].snaps, s \notin snaps'
               PROVE  s \in Vanished \cup Doomed
    BY DEF Vanished
  <2>1. s \in seen[p].snaps
    BY DEF NoSurprise
  <2> QED BY <2>1 DEF NoSurprise, Vanished
<1>4. \A y \in Snapshot : Spared(y) \subseteq Spared(y)'
  BY <1>2 DEF Spared
<1> QED BY <1>1, <1>2, <1>3, <1>4

\* What a plan destroys was a managed snapshot past its window, with Keep newer
\* ones in the listing.
LEMMA PrunesOld ==
  ASSUME TypeOK, NEW r \in Runs, NEW deferred \in SUBSET Datasets,
         NEW s \in WantedPrunes(r, deferred)
  PROVE  /\ s \in Snapshot /\ s.managed /\ s.at + Window[s.cls] < clock
         /\ \E N \in SUBSET {t \in seen[r].snaps : t.cls = s.cls /\ t.managed /\ Newer(t, s)} :
              Cardinality(N) >= Keep[s.cls]
<1>1. PICK k \in Classes : s \in Prunable(k, seen[r].snaps, seen[r].held, clock)
  BY DEF WantedPrunes
<1> DEFINE candidates == {t \in seen[r].snaps \ seen[r].held : t.cls = k /\ t.managed}
           N == {t \in candidates : Newer(t, s)}
<1>2. s \in candidates /\ Cardinality(N) >= Keep[k] /\ s.at < clock - Window[k]
  BY <1>1 DEF Prunable
<1>3. s \in Snapshot /\ s.managed /\ s.cls = k
  BY <1>2 DEF TypeOK
<1>4. s.at + Window[k] < clock
  <2>1. s.at \in Int /\ Window[k] \in Int /\ clock \in Int
    BY <1>3, ZsnapRunAssumption DEF Snapshot, TypeOK
  <2> QED BY <1>2, <2>1
<1>5. N \in SUBSET {t \in seen[r].snaps : t.cls = s.cls /\ t.managed /\ Newer(t, s)}
  BY <1>3
<1> QED BY <1>2, <1>3, <1>4, <1>5

\* A plan dooms no snapshot without sparing Keep newer ones, of those that it
\* listed and of those that were doomed or gone before.
LEMMA PlanSpares ==
  ASSUME TypeOK, TypeOK', FloorKept, NEW r \in Runs, Plan(r),
         NEW y \in Doomed' \cup Vanished
  PROVE  Cardinality(Spared(y)') >= Keep[y.cls]
<1> DEFINE bad == {z \in Doomed' \cup Vanished : z.cls = y.cls}
<1>1. y \in Snapshot /\ bad \in SUBSET Snapshot /\ bad # {}
  BY DEF Doomed, Vanished
<1>2. PICK x \in bad : \A z \in bad : ~Newer(z, x)
  BY <1>1, Newest
<1>3. PICK deferred \in SUBSET Datasets : prunes'[r] = WantedPrunes(r, deferred)
  BY PlanFacts
<1>4. /\ snaps' = snaps /\ cmd' = cmd /\ orphans' = orphans
      /\ \A p \in Runs \ {r} : prunes'[p] = prunes[p]
  BY PlanFacts
<1>5. x \in Doomed' => x \in Doomed \/ x \in prunes'[r]
  BY <1>4 DEF Doomed, ToDestroy
<1>6. x.cls = y.cls /\ x \in Snapshot /\ Keep[y.cls] \in Nat
  BY <1>1, ZsnapRunAssumption DEF Snapshot
<1>7. PICK N \in SUBSET {t \in snaps \cup seen[r].snaps :
                           t.cls = y.cls /\ t.managed /\ Newer(t, x)} :
        /\ Cardinality(N) >= Keep[y.cls]
        /\ \A t \in N : t \in snaps \/ t \in Vanished
  <2>1. CASE x \in Doomed \cup Vanished
    <3>1. Cardinality(Spared(x)) >= Keep[y.cls]
      BY <1>6, <2>1 DEF FloorKept
    <3> QED BY <1>6, <3>1 DEF Spared
  <2>2. CASE x \notin Doomed \cup Vanished
    <3>1. x \in WantedPrunes(r, deferred)
      BY <1>2, <1>3, <1>5, <2>2
    <3>2. PICK N \in SUBSET {t \in seen[r].snaps : t.cls = x.cls /\ t.managed /\ Newer(t, x)} :
            Cardinality(N) >= Keep[x.cls]
      BY <3>1, PrunesOld
    <3>3. \A t \in N : t \in snaps \/ t \in Vanished
      BY <3>2 DEF Vanished, TypeOK
    <3> QED BY <1>6, <3>2, <3>3
  <2> QED BY <2>1, <2>2
<1>8. N \subseteq Spared(y)'
  <2> SUFFICES ASSUME NEW t \in N PROVE t \in Spared(y)'
    OBVIOUS
  <2>1. t \in Snapshot /\ t.cls = y.cls /\ t.managed /\ Newer(t, x)
    BY <1>7 DEF TypeOK
  <2>2. t \notin bad
    BY <1>2, <2>1
  <2>3. t \in snaps /\ t \notin Doomed'
    BY <1>7, <2>1, <2>2
  <2>4. ~Newer(y, x)
    BY <1>2
  <2>5. Newer(t, y)
    BY <1>1, <1>6, <2>1, <2>4, NewerThanAll
  <2> QED BY <1>4, <2>1, <2>3, <2>5 DEF Spared
<1>9. Spared(y)' \in SUBSET Snapshot
  BY DEF Spared, TypeOK
<1>10. /\ Cardinality(N) \in Nat /\ Cardinality(Spared(y)') \in Nat
       /\ Cardinality(N) <= Cardinality(Spared(y)')
  BY <1>8, <1>9, Counts
<1> QED BY <1>6, <1>7, <1>10

\* Before the first invocation nothing is doomed and nothing has vanished.
LEMMA FloorInit == Init => FloorKept /\ Aged
BY DEF Init, FloorKept, Aged, Doomed, Vanished, ToDestroy, Destroys, Nothing

\* What prune loops leave alone is enough, whatever the age of the listings they
\* worked on.
LEMMA FloorStep ==
  ASSUME TypeOK, TypeOK', FloorKept, Aged, [Next]_vars
  PROVE  FloorKept' /\ Aged'
<1>1. CASE Plans
  <2>1. PICK r \in Runs : Plan(r)
    BY <1>1 DEF Plans
  <2>2. Vanished' \subseteq Vanished
    BY <2>1, PlanFacts DEF Vanished
  <2>3. FloorKept'
    BY <2>1, <2>2, PlanSpares DEF FloorKept
  <2>4. PICK deferred \in SUBSET Datasets : prunes'[r] = WantedPrunes(r, deferred)
    BY <2>1, PlanFacts
  <2>5. /\ clock' = clock /\ cmd' = cmd /\ orphans' = orphans
        /\ \A p \in Runs \ {r} : prunes'[p] = prunes[p]
    BY <2>1, PlanFacts
  <2>6. \A s \in Doomed' : s \in Doomed \/ s \in prunes'[r]
    BY <2>5 DEF Doomed, ToDestroy
  <2>7. Aged'
    BY <2>4, <2>5, <2>6, PrunesOld DEF Aged
  <2> QED BY <2>3, <2>7
<1>2. CASE ~Plans
  <2>1. NoNewWork /\ NoSurprise
    BY <1>2, WorkStep, SurpriseStep
  <2>2. /\ Doomed' \subseteq Doomed /\ Vanished' \subseteq Vanished \cup Doomed
        /\ \A y \in Snapshot : Spared(y) \subseteq Spared(y)'
    BY <2>1, SparedStay
  <2>3. ASSUME NEW y \in Doomed' \cup Vanished'
        PROVE  Cardinality(Spared(y)') >= Keep[y.cls]
    <3>1. y \in Snapshot /\ y \in Doomed \cup Vanished
      BY <2>2 DEF Doomed, Vanished
    <3>2. Spared(y)' \in SUBSET Snapshot
      BY DEF Spared, TypeOK
    <3>3. Cardinality(Spared(y)) >= Keep[y.cls] /\ Keep[y.cls] \in Nat
      BY <3>1, ZsnapRunAssumption DEF FloorKept, Snapshot
    <3>4. /\ Cardinality(Spared(y)) \in Nat /\ Cardinality(Spared(y)') \in Nat
          /\ Cardinality(Spared(y)) <= Cardinality(Spared(y)')
      BY <2>2, <3>1, <3>2, Counts
    <3> QED BY <3>3, <3>4
  <2>4. Aged'
    <3> SUFFICES ASSUME NEW s \in Doomed' PROVE s.managed /\ s.at + Window[s.cls] < clock'
      BY DEF Aged
    <3>1. s.managed /\ s.at + Window[s.cls] < clock /\ clock <= clock'
      BY <2>1, <2>2 DEF Aged, NoSurprise
    <3>2. s.at \in Int /\ Window[s.cls] \in Int /\ clock \in Int /\ clock' \in Int
      BY ZsnapRunAssumption DEF Doomed, Snapshot, TypeOK
    <3> QED BY <3>1, <3>2
  <2> QED BY <2>3, <2>4 DEF FloorKept
<1> QED BY <1>1, <1>2

-----------------------------------------------------------------------------
(* The steps, as a run inside the locked region sees them *)

\* A step of somebody else: what the run knows stays, and if snapshots change it
\* counts as touched.
Outside(p) ==
  /\ pc'[p] = pc[p] /\ seen'[p] = seen[p] /\ planned'[p] = planned[p]
  /\ scope'[p] = scope[p] /\ creates'[p] = creates[p] /\ prunes'[p] = prunes[p]
  /\ cmd'[p] = cmd[p] /\ errors'[p] = errors[p] /\ forecast'[p] = forecast[p]
  /\ \/ snaps' = snaps /\ touched'[p] = touched[p]
     \/ /\ touched'[p]
        /\ orphans # {} \/ \A s \in snaps' \ snaps : ~s.managed

\* A step of its own that changes no snapshot: without an error it has as much
\* left to do as before.
Moves(p) ==
  /\ pc[p] \in {"working", "finished"} /\ pc'[p] \in {"working", "finished", "cached"}
  /\ snaps' = snaps /\ touched'[p] = touched[p] /\ planned'[p] = planned[p]
  /\ scope'[p] = scope[p] /\ forecast'[p] = forecast[p]
  /\ errors[p] => errors'[p]
  /\ ~errors'[p] => /\ \A k \in Classes : ToTake(p, k)' = ToTake(p, k)
                    /\ \A s \in Snapshot : ToDestroy(p, s)' = ToDestroy(p, s)

Own(p) ==
  \/ pc'[p] = "idle" \/ Discover(p) \/ Plan(p) \/ Moves(p)
  \/ \E q \in Pools : Succeeds(p, q)

\* Two runs are not in the locked region together.
LEMMA Lonely ==
  ASSUME Structure, NEW p \in Runs, NEW r \in Runs, pc[p] # "idle", pc[r] # "idle"
  PROVE  p = r
BY DEF Structure, Exclusive

\* A run at work is not reset by another, and the end of another changes nothing
\* for it.
LEMMA OthersReset ==
  ASSUME TypeOK, NEW p \in Runs, NEW r \in Runs \ {p}, Reset(r), UNCHANGED snaps
  PROVE  Outside(p)
BY ResetFrame DEF Outside

\* A worker with a command in flight belongs to a run that is working.
LEMMA InFlight ==
  ASSUME Structure, NEW r \in Runs, NEW q \in Pools, cmd[r][q] # Nothing
  PROVE  pc[r] = "working"
BY DEF Structure, Phases

\* The steps of one pool's worker.
LEMMA WorkerKinds ==
  ASSUME TypeOK, Structure, NEW p \in Runs, pc[p] # "idle", NEW q \in Pools,
         \/ SpawnSnapshot(p, q) \/ SnapshotHookFails(p, q) \/ EndSnapshots(p, q)
         \/ SpawnDestroy(p, q) \/ PruneHookFails(p, q) \/ EndPrunes(p, q)
         \/ Fails(p, q)
  PROVE  Moves(p)
<1> USE DEF Moves, TypeOK, zfs, plan, work, history, ToTake, ToDestroy, Takes, Destroys,
            Nothing, CreatesIn, PrunesIn
<1>1. CASE SpawnSnapshot(p, q)
  BY <1>1 DEF SpawnSnapshot
<1>2. CASE SnapshotHookFails(p, q)
  BY <1>2 DEF SnapshotHookFails
<1>3. CASE EndSnapshots(p, q)
  BY <1>3 DEF EndSnapshots, Structure, Noted
<1>4. CASE SpawnDestroy(p, q)
  BY <1>4 DEF SpawnDestroy
<1>5. CASE PruneHookFails(p, q)
  BY <1>5 DEF PruneHookFails
<1>6. CASE EndPrunes(p, q)
  BY <1>6 DEF EndPrunes
<1>7. CASE Fails(p, q)
  BY <1>7, InFlight DEF Fails
<1> QED BY <1>1, <1>2, <1>3, <1>4, <1>5, <1>6, <1>7

\* Whatever happens while a run is in the locked region is its own step or one
\* that leaves what it knows alone.
LEMMA Kinds ==
  ASSUME TypeOK, Structure, [Next]_vars, NEW p \in Runs, pc[p] # "idle"
  PROVE  Outside(p) \/ Own(p)
<1> USE DEF TypeOK, zfs, plan, work, history, counters
<1>1. ASSUME NEW r \in Runs, Acquire(r) PROVE Outside(p)
  BY <1>1 DEF Acquire, Lock!Enter, Structure, Exclusive
<1>2. ASSUME NEW r \in Runs, Discover(r) \/ Plan(r) PROVE Own(p)
  BY <1>2, Lonely DEF Discover, Plan, Own
<1>3. ASSUME NEW r \in Runs, Finish(r) \/ WriteCache(r) PROVE Own(p)
  <2>1. r = p
    BY <1>3, Lonely DEF Finish, WriteCache
  <2> QED BY <1>3, <2>1 DEF Finish, WriteCache, Own, Moves, ToTake, ToDestroy
<1>4. ASSUME NEW r \in Runs, Release(r) \/ Abort(r) \/ Crash(r) PROVE Outside(p) \/ Own(p)
  <2>1. Reset(r) /\ UNCHANGED snaps
    BY <1>4 DEF Release, Abort, Crash
  <2>2. CASE r = p
    BY <2>1, <2>2, ResetFrame DEF Own
  <2>3. CASE r # p
    BY <2>1, <2>3, OthersReset
  <2> QED BY <2>2, <2>3
<1>5. ASSUME NEW r \in Runs, NEW q \in Pools,
             \/ SpawnSnapshot(r, q) \/ SnapshotHookFails(r, q) \/ EndSnapshots(r, q)
             \/ SpawnDestroy(r, q) \/ PruneHookFails(r, q) \/ EndPrunes(r, q)
      PROVE  Own(p)
  <2>1. r = p
    BY <1>5, Lonely DEF SpawnSnapshot, SnapshotHookFails, EndSnapshots, SpawnDestroy,
                        PruneHookFails, EndPrunes
  <2> QED BY <1>5, <2>1, WorkerKinds DEF Own
<1>6. ASSUME NEW r \in Runs, NEW q \in Pools, Succeeds(r, q) \/ Fails(r, q) PROVE Own(p)
  <2>1. cmd[r][q] # Nothing
    BY <1>6 DEF Succeeds, Fails
  <2>2. r = p
    BY <2>1, InFlight, Lonely
  <2> QED BY <1>6, <2>2, WorkerKinds DEF Own
<1>7. CASE OrphanEnds
  BY <1>7 DEF OrphanEnds, Touch, Outside
<1>8. CASE Tick \/ ToggleHold \/ UNCHANGED vars
  BY <1>8 DEF Tick, ToggleHold, Outside, vars
<1>9. CASE ManualSnapshot
  <2>1. \A s \in snaps' \ snaps : ~s.managed
    <3>1. PICK k \in Classes :
            snaps' = snaps \cup {[cls |-> k, name |-> 0, at |-> clock, managed |-> FALSE]}
      BY <1>9 DEF ManualSnapshot
    <3> QED BY <3>1
  <2>2. touched'[p]
    BY <1>9 DEF ManualSnapshot, Touch
  <2> QED BY <1>9, <2>1, <2>2 DEF ManualSnapshot, Outside
<1> QED
  BY <1>1, <1>2, <1>3, <1>4, <1>5, <1>6, <1>7, <1>8, <1>9 DEF Next, Step

\* What a run that is not in the locked region may become.
LEMMA FromIdle ==
  ASSUME TypeOK, [Next]_vars, NEW p \in Runs, pc[p] = "idle"
  PROVE  pc'[p] \in {"idle", "locked"}
<1> USE DEF TypeOK
<1>1. ASSUME NEW r \in Runs, Acquire(r) \/ Step(r) \/ Crash(r) PROVE pc'[p] \in {"idle", "locked"}
  BY <1>1 DEF Acquire, Step, Crash, Discover, Plan, Finish, WriteCache, Release, Abort, Reset,
              SpawnSnapshot, EndSnapshots, SpawnDestroy, EndPrunes, Succeeds, Fails
<1>2. CASE \E r \in Runs, q \in Pools : SnapshotHookFails(r, q) \/ PruneHookFails(r, q)
  BY <1>2 DEF SnapshotHookFails, PruneHookFails
<1>3. CASE OrphanEnds \/ Tick \/ ToggleHold \/ ManualSnapshot \/ UNCHANGED vars
  BY <1>3 DEF OrphanEnds, Tick, ToggleHold, ManualSnapshot, vars
<1> QED BY <1>1, <1>2, <1>3 DEF Next
\* A run that is not working has nothing left to do.
LEMMA AtRest ==
  ASSUME Structure, NEW p \in Runs, pc[p] # "working"
  PROVE  /\ \A k \in Classes : ~ToTake(p, k)
         /\ \A s \in Snapshot : ~ToDestroy(p, s)
BY ZsnapRunAssumption
DEF Structure, Phases, ToTake, ToDestroy, Takes, Destroys, Nothing, CreatesIn, PrunesIn,
    PoolOfSnap, Snapshot

\* The same of the state a step leads to.
LEMMA AtRestNext ==
  ASSUME Structure', NEW p \in Runs, pc'[p] # "working"
  PROVE  \A k \in Classes : ~ToTake(p, k)'
BY ZsnapRunAssumption
DEF Structure, Phases, ToTake, Takes, Nothing, CreatesIn

\* A step of a run that does not plan adds no work, and takes nothing that was
\* not doomed.
LEMMA NoPlan ==
  ASSUME TypeOK, Structure, [Next]_vars, NEW p \in Runs, pc[p] # "idle", ~Plan(p)
  PROVE  NoNewWork /\ NoSurprise
<1>1. ~Plans
  BY Lonely DEF Plans, Plan
<1> QED BY <1>1, WorkStep, SurpriseStep

\* The snapshot that a run takes of a class.
Taken(p, k) == [cls |-> k, name |-> number[p], at |-> clock, managed |-> TRUE]

\* What the success of a command leaves.
LEMMA Success ==
  ASSUME TypeOK, Structure, NEW p \in Runs, NEW q \in Pools, Succeeds(p, q)
  PROVE  /\ pc[p] = "working" /\ pc'[p] = "working"
         /\ clock' = clock /\ planned'[p] = planned[p] /\ scope'[p] = scope[p]
         /\ errors'[p] = errors[p] /\ forecast'[p] = forecast[p] /\ touched'[p] = touched[p]
         /\ \/ /\ cmd[p][q].op = "snapshot" /\ cmd[p][q].batch \subseteq Classes
               /\ snaps' = snaps \cup {Taken(p, k) : k \in cmd[p][q].batch}
            \/ /\ cmd[p][q].op = "destroy" /\ cmd[p][q].batch \subseteq Snapshot
               /\ snaps' = snaps \ cmd[p][q].batch
         /\ \A k \in Classes : ToTake(p, k)' <=> ToTake(p, k) /\ ~Takes(cmd[p][q], k)
         /\ \A s \in Snapshot : /\ ToDestroy(p, s)' => ToDestroy(p, s)
                                /\ ToDestroy(p, s) => ToDestroy(p, s)' \/ Destroys(cmd[p][q], s)
<1> USE DEF TypeOK
<1>1. /\ pc' = pc /\ clock' = clock /\ creates' = creates /\ prunes' = prunes
      /\ planned' = planned /\ scope' = scope /\ errors' = errors /\ forecast' = forecast
      /\ touched' = Touch(Runs \ {p}) /\ cmd' = [cmd EXCEPT ![p][q] = Nothing]
      /\ cmd[p][q] # Nothing /\ Applies(cmd[p][q], number[p])
  BY DEF Succeeds, plan
<1>2. pc[p] = "working" /\ touched'[p] = touched[p]
  BY <1>1, InFlight DEF Touch
<1>3. cmd'[p][q] = Nothing /\ \A j \in Pools \ {q} : cmd'[p][j] = cmd[p][j]
  BY <1>1
<1>4. cmd[p][q] \in Command
  OBVIOUS
<1>5. \/ /\ cmd[p][q].op = "snapshot" /\ cmd[p][q].batch \subseteq Classes
         /\ snaps' = snaps \cup {Taken(p, k) : k \in cmd[p][q].batch}
      \/ /\ cmd[p][q].op = "destroy" /\ cmd[p][q].batch \subseteq Snapshot
         /\ snaps' = snaps \ cmd[p][q].batch
  BY <1>1, <1>4 DEF Applies, Command, Nothing, Taken
<1>6. ASSUME NEW k \in Classes
      PROVE  ToTake(p, k)' <=> ToTake(p, k) /\ ~Takes(cmd[p][q], k)
  <2>1. Takes(cmd[p][q], k) => k \notin creates'[p] /\ \A j \in Pools \ {q} : ~Takes(cmd'[p][j], k)
    <3>1. \A j \in Pools : Takes(cmd[p][j], k) => k \notin creates[p] /\ PoolOf[DatasetOf[k]] = j
      BY DEF Structure, Once
    <3>2. creates'[p] = creates[p]
      BY <1>1
    <3> QED BY <1>3, <3>1, <3>2
  <2>2. ~Takes(cmd'[p][q], k)
    BY <1>3 DEF Takes, Nothing
  <2> QED BY <1>1, <1>3, <2>1, <2>2 DEF ToTake
<1>7. \A s \in Snapshot : /\ ToDestroy(p, s)' => ToDestroy(p, s)
                          /\ ToDestroy(p, s) => ToDestroy(p, s)' \/ Destroys(cmd[p][q], s)
  BY <1>1, <1>3 DEF ToDestroy, Destroys, Nothing
<1> QED BY <1>1, <1>2, <1>5, <1>6, <1>7
-----------------------------------------------------------------------------
(* What the other parts of the invariant need *)

\* A plan is made for now, and for classes that are kept.
LEMMA PlannedStep ==
  ASSUME TypeOK, Planned, [Next]_vars
  PROVE  Planned'
<1>1. CASE Plans
  <2>1. PICK r \in Runs : Plan(r)
    BY <1>1 DEF Plans
  <2>2. /\ creates'[r] = WantedSnapshots(r) /\ planned'[r] = clock
        /\ clock' = clock /\ cmd' = cmd
        /\ \A p \in Runs \ {r} : creates'[p] = creates[p] /\ planned'[p] = planned[p]
    BY <2>1, PlanFacts
  <2>3. \A k \in WantedSnapshots(r) : Keep[k] # 0
    BY DEF WantedSnapshots, Due
  <2>4. ASSUME NEW p \in Runs PROVE planned'[p] <= clock'
    <3>1. clock \in Int
      BY DEF TypeOK
    <3>2. planned'[p] = clock \/ planned'[p] <= clock
      BY <2>2 DEF Planned
    <3> QED BY <2>2, <3>1, <3>2
  <2>5. ASSUME NEW p \in Runs, NEW k \in Classes, ToTake(p, k)' PROVE Keep[k] # 0
    <3>1. ToTake(p, k) \/ k \in WantedSnapshots(r)
      BY <2>2, <2>5 DEF ToTake
    <3> QED BY <2>3, <3>1 DEF Planned
  <2> QED BY <2>4, <2>5 DEF Planned
<1>2. CASE ~Plans
  <2>1. NoNewWork /\ NoSurprise
    BY <1>2, WorkStep, SurpriseStep
  <2>2. clock \in Int /\ clock' \in Int /\ 0 <= clock /\ \A p \in Runs : planned[p] \in Int
    BY <2>1, TypeStep, ZsnapRunAssumption DEF TypeOK
  <2>3. ASSUME NEW p \in Runs PROVE planned'[p] <= clock'
    <3>1. planned'[p] \in {planned[p], 0} /\ clock <= clock' /\ planned[p] <= clock
      BY <2>1 DEF NoSurprise, Planned
    <3> QED BY <2>2, <3>1
  <2> QED BY <2>1, <2>3 DEF Planned, NoNewWork
<1> QED BY <1>1, <1>2

\* A listing is complete until somebody takes a snapshot.
LEMMA ListedStep ==
  ASSUME TypeOK, Structure, Listed, [Next]_vars
  PROVE  Listed'
<1> SUFFICES ASSUME NEW p \in Runs, pc'[p] = "listed"
             PROVE  /\ Undisturbed(p)' => \A s \in snaps' : s.managed => s \in seen'[p].snaps
                    /\ ~touched'[p] => seen'[p].snaps = snaps'
  BY DEF Listed
<1>1. pc[p] # "idle"
  BY FromIdle
<1>2. Outside(p) \/ Discover(p)
  <2>1. \A q \in Pools : ~Succeeds(p, q)
    BY Success
  <2>2. ~Plan(p)
    BY PlanFacts
  <2> QED BY <1>1, <2>1, <2>2, Kinds DEF Own, Moves
<1>3. CASE Discover(p)
  BY <1>3 DEF Discover, TypeOK, zfs
<1>4. CASE Outside(p)
  <2>1. /\ Undisturbed(p) => \A s \in snaps : s.managed => s \in seen'[p].snaps
        /\ ~touched[p] => seen'[p].snaps = snaps
    BY <1>4 DEF Outside, Listed
  <2>2. CASE snaps' = snaps /\ touched'[p] = touched[p]
    BY <2>1, <2>2 DEF Undisturbed
  <2>3. CASE touched'[p] /\ (orphans # {} \/ \A s \in snaps' \ snaps : ~s.managed)
    BY <2>1, <2>3 DEF Undisturbed, Structure, NoOrphans
  <2> QED BY <1>4, <2>2, <2>3 DEF Outside
<1> QED BY <1>2, <1>3, <1>4

\* A class waits for its snapshot until it is taken: meanwhile nobody else, if
\* commands do not survive their runs, takes one.
LEMMA BehindStep ==
  ASSUME TypeOK, Structure, Listed, Behind, [Next]_vars
  PROVE  Behind'
<1> SUFFICES ASSUME NEW p \in Runs, NEW k \in Classes, ToTake(p, k)', Undisturbed(p)',
                    NEW s \in snaps', s.cls = k, s.managed
             PROVE  s.at < Preferred(k, planned'[p])
  BY DEF Behind
<1>1. pc'[p] = "working" /\ pc[p] # "idle"
  <2>1. Structure'
    BY StructureStep
  <2>2. pc'[p] = "working"
    BY <2>1, AtRestNext
  <2> QED BY <2>2, FromIdle
<1>2. CASE Outside(p)
  <2>1. ToTake(p, k) /\ planned'[p] = planned[p]
    BY <1>2 DEF Outside, ToTake
  <2>2. Undisturbed(p) /\ s \in snaps
    BY <1>2 DEF Outside, Undisturbed, Structure, NoOrphans
  <2> QED BY <2>1, <2>2 DEF Behind
<1>3. CASE Plan(p)
  <2>1. /\ pc[p] = "listed" /\ creates'[p] = WantedSnapshots(p) /\ cmd' = cmd
        /\ planned'[p] = clock /\ snaps' = snaps /\ touched' = touched
    BY <1>3, PlanFacts
  <2>2. Due(k, seen[p].snaps, clock)
    BY <2>1, AtRest DEF ToTake, WantedSnapshots
  <2>3. s \in seen[p].snaps
    BY <2>1 DEF Listed, Undisturbed
  <2> QED BY <2>1, <2>2, <2>3 DEF Due
<1>4. CASE Moves(p) /\ ~Plan(p)
  <2>1. ToTake(p, k)
    BY <1>1, <1>4, NoPlan DEF NoNewWork
  <2> QED BY <1>4, <2>1 DEF Moves, Behind, Undisturbed
<1>5. ASSUME NEW q \in Pools, Succeeds(p, q) PROVE s.at < Preferred(k, planned'[p])
  <2>1. ToTake(p, k) /\ ~Takes(cmd[p][q], k) /\ planned'[p] = planned[p] /\ Undisturbed(p)
    BY <1>5, Success DEF Undisturbed
  <2>2. s \in snaps
    BY <1>5, <2>1, Success DEF Takes, Taken
  <2> QED BY <2>1, <2>2 DEF Behind
<1> QED BY <1>1, <1>2, <1>3, <1>4, <1>5, Kinds DEF Own, Discover, TypeOK
\* A class that a run need not snapshot has a fresh snapshot that nobody will
\* destroy: the plan found one, or the run has taken it.
LEMMA FreshStep ==
  ASSUME TypeOK, TypeOK', Structure, Planned, Aged, FloorKept, Fresh, [Next]_vars
  PROVE  Fresh'
<1> SUFFICES ASSUME NEW p \in Runs, pc'[p] \in {"working", "finished"}, ~errors'[p],
                    scope'[p] # "prune", NEW k \in Classes, Keep[k] # 0, ~ToTake(p, k)'
             PROVE  \E s \in snaps' \ Doomed' : s.cls = k /\ s.at >= Preferred(k, planned'[p])
  BY DEF Fresh
<1>1. pc[p] # "idle"
  BY FromIdle
<1>2. ASSUME ~Plan(p)
      PROVE  snaps \ Doomed \subseteq snaps' \ Doomed' /\ Doomed' \subseteq Doomed
  BY <1>1, <1>2, NoPlan, SparedStay
<1>3. ASSUME ~Plan(p), pc[p] \in {"working", "finished"}, ~errors[p], scope[p] # "prune",
             planned'[p] = planned[p], ~ToTake(p, k)
      PROVE  \E s \in snaps' \ Doomed' : s.cls = k /\ s.at >= Preferred(k, planned'[p])
  BY <1>2, <1>3 DEF Fresh
<1>4. CASE Outside(p) /\ ~Plan(p)
  BY <1>3, <1>4 DEF Outside, ToTake
<1>5. CASE Moves(p) /\ ~Plan(p)
  BY <1>3, <1>5 DEF Moves
<1>6. CASE Plan(p)
  <2>1. /\ creates'[p] = WantedSnapshots(p) /\ planned'[p] = clock
        /\ snaps' = snaps /\ scope' = scope
    BY <1>6, PlanFacts
  <2>2. PICK s \in seen[p].snaps : s.cls = k /\ ~(s.at < Preferred(k, clock))
    BY <2>1 DEF ToTake, WantedSnapshots, Due
  <2>3. s \in Snapshot /\ s.at \in Nat /\ clock \in Nat
    BY ZsnapRunAssumption DEF TypeOK, Snapshot
  <2>4. Preferred(k, clock) \in Nat /\ s.at >= Preferred(k, clock)
    BY <2>2, <2>3, PreferredLatest
  <2>5. CASE s \in snaps /\ s \notin Doomed'
    BY <2>1, <2>2, <2>4, <2>5
  <2>6. CASE s \in Doomed' \cup Vanished
    <3>1. Cardinality(Spared(s)') >= Keep[k] /\ Keep[k] \in Nat
      BY <1>6, <2>2, <2>6, PlanSpares, ZsnapRunAssumption
    <3>2. Spared(s)' # {}
      <4>1. Cardinality({}) = 0
        BY FS_EmptySet
      <4> QED BY <3>1, <4>1
    <3>3. PICK t \in snaps' \ Doomed' : t.cls = k /\ Newer(t, s)
      BY <2>2, <3>2 DEF Spared
    <3>4. t.at \in Nat
      BY DEF TypeOK, Snapshot
    <3>5. t.at >= Preferred(k, clock)
      BY <2>3, <2>4, <3>3, <3>4 DEF Newer
    <3> QED BY <2>1, <3>3, <3>5
  <2> QED BY <2>3, <2>5, <2>6 DEF Vanished
<1>7. ASSUME NEW q \in Pools, Succeeds(p, q), ~Plan(p)
      PROVE  \E s \in snaps' \ Doomed' : s.cls = k /\ s.at >= Preferred(k, planned'[p])
  <2>1. /\ pc[p] = "working" /\ clock' = clock /\ planned'[p] = planned[p]
        /\ scope'[p] = scope[p] /\ errors'[p] = errors[p]
        /\ ~ToTake(p, k) \/ Takes(cmd[p][q], k)
    BY <1>7, Success
  <2>2. CASE Takes(cmd[p][q], k)
    <3>1. Taken(p, k) \in snaps'
      BY <1>7, <2>2, Success DEF Takes
    <3>2. Taken(p, k).cls = k /\ Taken(p, k).at = clock
      BY DEF Taken
    <3>3. clock \in Nat /\ planned[p] \in Nat /\ Window[k] \in Nat /\ planned[p] <= clock
      BY ZsnapRunAssumption DEF TypeOK, Planned
    <3>4. Taken(p, k) \notin Doomed
      <4>1. ~(clock + Window[k] < clock)
        BY <3>3
      <4> QED BY <3>2, <4>1 DEF Aged
    <3>5. clock >= Preferred(k, planned[p])
      <4>1. Preferred(k, planned[p]) \in Nat /\ Preferred(k, planned[p]) <= planned[p]
        BY <3>3, PreferredLatest
      <4> QED BY <3>3, <4>1
    <3> QED BY <1>2, <1>7, <2>1, <3>1, <3>2, <3>4, <3>5
  <2> QED BY <1>3, <1>7, <2>1, <2>2
<1>8. Plan(p) \/ Outside(p) \/ Moves(p) \/ \E q \in Pools : Succeeds(p, q)
  <2>1. ~Discover(p)
    BY DEF Discover, TypeOK
  <2> QED BY <1>1, <2>1, Kinds DEF Own
<1> QED BY <1>4, <1>5, <1>6, <1>7, <1>8
-----------------------------------------------------------------------------
(* The counts of the status cache *)

\* What counts towards Rest and More.
Left(r, d) == {s \in snaps : ~ToDestroy(r, s) /\ DatasetOf[s.cls] = d}
Coming(r, d) == {k \in Classes : ToTake(r, k) /\ DatasetOf[k] = d}

\* A snapshot command of an undisturbed run moves as many from what is to come
\* to what is there.
LEMMA TakenCounts ==
  ASSUME TypeOK, TypeOK', Structure, Planned, Aged, Behind,
         NEW p \in Runs, NEW q \in Pools, Succeeds(p, q), ~touched[p],
         cmd[p][q].op = "snapshot", NEW d \in Datasets
  PROVE  Rest(p, d)' + More(p, d)' = Rest(p, d) + More(p, d)
<1> DEFINE batch == {k \in Classes : Takes(cmd[p][q], k) /\ DatasetOf[k] = d}
           new == {Taken(p, k) : k \in batch}
           f == [k \in batch |-> Taken(p, k)]
<1>1. /\ clock' = clock /\ cmd[p][q].batch \subseteq Classes
      /\ snaps' = snaps \cup {Taken(p, k) : k \in cmd[p][q].batch}
      /\ \A k \in Classes : ToTake(p, k)' <=> ToTake(p, k) /\ ~Takes(cmd[p][q], k)
      /\ \A s \in Snapshot : ToDestroy(p, s)' <=> ToDestroy(p, s)
  BY Success DEF Destroys
<1>2. /\ snaps \subseteq Snapshot /\ snaps' \subseteq Snapshot /\ clock \in Nat
      /\ number[p] \in 0..MaxRuns /\ planned[p] \in Nat /\ planned[p] <= clock
  BY ZsnapRunAssumption DEF TypeOK, Planned
<1>3. \A k \in batch : ToTake(p, k)
  BY DEF ToTake
<1>4. ASSUME NEW k \in batch PROVE Taken(p, k) \notin snaps
  <2>1. Preferred(k, planned[p]) \in Nat /\ Preferred(k, planned[p]) <= planned[p]
    BY <1>2, PreferredLatest
  <2>2. Taken(p, k).cls = k /\ Taken(p, k).managed /\ Taken(p, k).at = clock
    BY DEF Taken
  <2>3. ~(clock < Preferred(k, planned[p]))
    BY <1>2, <2>1
  <2> QED BY <1>3, <2>2, <2>3 DEF Behind, Undisturbed
<1>5. ASSUME NEW k \in batch PROVE ~ToDestroy(p, Taken(p, k))
  <2>1. Taken(p, k).cls = k /\ Taken(p, k).at = clock
    BY DEF Taken
  <2>2. ~(clock + Window[k] < clock)
    BY <1>2, ZsnapRunAssumption
  <2>3. Taken(p, k) \notin Doomed
    BY <2>1, <2>2 DEF Aged
  <2>4. Taken(p, k) \in Snapshot
    BY <1>1, <1>2 DEF Takes
  <2> QED BY <2>3, <2>4 DEF Doomed
<1>6. Left(p, d)' = Left(p, d) \cup new
  <2>1. Left(p, d)' \subseteq Left(p, d) \cup new
    BY <1>1, <1>2 DEF Left, Taken, Takes
  <2>2. Left(p, d) \subseteq Left(p, d)'
    BY <1>1, <1>2 DEF Left
  <2>3. ASSUME NEW k \in batch PROVE Taken(p, k) \in Left(p, d)'
    <3>1. Taken(p, k) \in snaps' /\ Taken(p, k).cls = k
      BY <1>1 DEF Taken, Takes
    <3> QED BY <1>1, <1>2, <1>5, <3>1 DEF Left
  <2> QED BY <2>1, <2>2, <2>3
<1>7. Coming(p, d)' \cup batch = Coming(p, d) /\ Coming(p, d)' \cap batch = {}
  BY <1>1, <1>3 DEF Coming
<1>8. Left(p, d) \cap new = {}
  BY <1>4 DEF Left
<1>9. /\ IsFiniteSet(batch) /\ Cardinality(batch) \in Nat
      /\ IsFiniteSet(Coming(p, d)') /\ Cardinality(Coming(p, d)') \in Nat
  BY FS_Subset, FS_CardinalityType, ZsnapRunAssumption DEF Coming
<1>10. IsFiniteSet(new) /\ Cardinality(new) = Cardinality(batch)
  <2>1. \A k, l \in batch : Taken(p, k) = Taken(p, l) => k = l
    <3> TAKE k, l \in batch
    <3>1. Taken(p, k).cls = k /\ Taken(p, l).cls = l
      BY DEF Taken
    <3> QED BY <3>1
  <2> HIDE DEF batch
  <2>2. f \in [batch -> new] /\ \A k \in batch : f[k] = Taken(p, k)
    OBVIOUS
  <2>3. \A t \in new : \E k \in batch : f[k] = t
    BY <2>2
  <2>4. f \in Bijection(batch, new)
    <3> HIDE DEF f, new
    <3> QED BY <2>1, <2>2, <2>3 DEF Bijection, Injection, Surjection, IsInjective
  <2> QED BY <1>9, <2>4, FS_Bijection DEF ExistsBijection
<1>11. IsFiniteSet(Left(p, d)) /\ Cardinality(Left(p, d)) \in Nat
  <2>1. Left(p, d) \in SUBSET Snapshot
    BY <1>2 DEF Left
  <2> QED BY <2>1, Counts
<1>12. Cardinality(Left(p, d)') = Cardinality(Left(p, d)) + Cardinality(batch)
  <2> HIDE DEF new, batch
  <2>1. Cardinality(Left(p, d) \cup new)
          = Cardinality(Left(p, d)) + Cardinality(new) - Cardinality({})
    BY <1>8, <1>10, <1>11, FS_Union
  <2> QED BY <1>6, <1>9, <1>10, <1>11, <2>1, FS_EmptySet
<1>13. Cardinality(Coming(p, d)) = Cardinality(Coming(p, d)') + Cardinality(batch)
  <2> HIDE DEF batch
  <2>1. Cardinality(Coming(p, d)' \cup batch)
          = Cardinality(Coming(p, d)') + Cardinality(batch) - Cardinality({})
    BY <1>7, <1>9, FS_Union
  <2>2. Cardinality(Coming(p, d)' \cup batch) = Cardinality(Coming(p, d))
    BY <1>7
  <2>3. Cardinality({}) = 0
    BY FS_EmptySet
  <2> QED BY <1>9, <2>1, <2>2, <2>3
<1>14. /\ Rest(p, d) = Cardinality(Left(p, d)) /\ Rest(p, d)' = Cardinality(Left(p, d)')
       /\ More(p, d) = Cardinality(Coming(p, d)) /\ More(p, d)' = Cardinality(Coming(p, d)')
  BY DEF Rest, More, Left, Coming
<1> QED BY <1>9, <1>11, <1>12, <1>13, <1>14

\* The forecast of a run that nobody disturbs stays right while it works.
LEMMA ForetoldStep ==
  ASSUME TypeOK, TypeOK', Structure, Planned, Aged, Listed, Behind, Foretold, [Next]_vars
  PROVE  Foretold'
<1> SUFFICES ASSUME NEW p \in Runs, pc'[p] \in {"working", "finished"}, ~errors'[p],
                    ~touched'[p], NEW d \in Datasets
             PROVE  forecast'[p][d] = Rest(p, d)' + More(p, d)'
  BY DEF Foretold
<1>1. pc[p] # "idle"
  BY FromIdle
<1>2. snaps \subseteq Snapshot /\ snaps' \subseteq Snapshot
  BY DEF TypeOK
<1>3. ASSUME pc[p] \in {"working", "finished"}, ~errors[p], ~touched[p],
             forecast'[p] = forecast[p], Left(p, d)' = Left(p, d), Coming(p, d)' = Coming(p, d)
      PROVE  forecast'[p][d] = Rest(p, d)' + More(p, d)'
  <2>1. Rest(p, d)' = Rest(p, d) /\ More(p, d)' = More(p, d)
    BY <1>3 DEF Rest, More, Left, Coming
  <2> QED BY <1>3, <2>1 DEF Foretold
<1>4. CASE Outside(p)
  <2>1. /\ pc'[p] = pc[p] /\ errors'[p] = errors[p] /\ forecast'[p] = forecast[p]
        /\ snaps' = snaps /\ touched'[p] = touched[p]
    BY <1>4 DEF Outside
  <2>2. Left(p, d)' = Left(p, d) /\ Coming(p, d)' = Coming(p, d)
    BY <1>4, <2>1 DEF Outside, Left, Coming, ToTake, ToDestroy
  <2> QED BY <1>3, <2>1, <2>2
<1>5. CASE Moves(p)
  <2>1. /\ ~errors[p] /\ pc[p] \in {"working", "finished"} /\ ~touched[p]
        /\ forecast'[p] = forecast[p]
    BY <1>5 DEF Moves
  <2>2. Left(p, d)' = Left(p, d) /\ Coming(p, d)' = Coming(p, d)
    BY <1>2, <1>5 DEF Moves, Left, Coming
  <2> QED BY <1>3, <2>1, <2>2
<1>6. CASE Plan(p)
  <2>1. PICK deferred \in SUBSET Datasets :
          /\ creates'[p] = WantedSnapshots(p) /\ prunes'[p] = WantedPrunes(p, deferred)
          /\ forecast'[p] = Forecast(seen[p].snaps, WantedSnapshots(p),
                                     WantedPrunes(p, deferred))
    BY <1>6, PlanFacts
  <2>2. pc[p] = "listed" /\ snaps' = snaps /\ cmd' = cmd /\ touched' = touched
    BY <1>6, PlanFacts
  <2>3. seen[p].snaps = snaps
    BY <2>2 DEF Listed
  <2>4. \A s \in Snapshot : ToDestroy(p, s)' <=> s \in prunes'[p]
    BY <2>2, AtRest DEF ToDestroy
  <2>5. \A k \in Classes : ToTake(p, k)' <=> k \in creates'[p]
    BY <2>2, AtRest DEF ToTake
  <2>6. Rest(p, d)' = Cardinality({s \in snaps \ prunes'[p] : DatasetOf[s.cls] = d})
    <3>1. {s \in snaps' : ~ToDestroy(p, s)' /\ DatasetOf[s.cls] = d}
            = {s \in snaps \ prunes'[p] : DatasetOf[s.cls] = d}
      BY <1>2, <2>2, <2>4
    <3> QED BY <3>1 DEF Rest
  <2>7. More(p, d)' = Cardinality({k \in creates'[p] : DatasetOf[k] = d})
    <3>1. creates'[p] \subseteq Classes
      BY DEF TypeOK
    <3>2. {k \in Classes : ToTake(p, k)' /\ DatasetOf[k] = d}
            = {k \in creates'[p] : DatasetOf[k] = d}
      BY <2>5, <3>1
    <3> QED BY <3>2 DEF More
  <2> QED BY <2>1, <2>3, <2>6, <2>7 DEF Forecast
<1>7. ASSUME NEW q \in Pools, Succeeds(p, q)
      PROVE  forecast'[p][d] = Rest(p, d)' + More(p, d)'
  <2>1. /\ pc[p] = "working" /\ errors'[p] = errors[p] /\ forecast'[p] = forecast[p]
        /\ touched'[p] = touched[p]
        /\ \A k \in Classes : ToTake(p, k)' <=> ToTake(p, k) /\ ~Takes(cmd[p][q], k)
        /\ \A s \in Snapshot : /\ ToDestroy(p, s)' => ToDestroy(p, s)
                               /\ ToDestroy(p, s) => ToDestroy(p, s)' \/ Destroys(cmd[p][q], s)
    BY <1>7, Success
  <2>2. CASE cmd[p][q].op = "snapshot"
    <3>1. Rest(p, d)' + More(p, d)' = Rest(p, d) + More(p, d)
      BY <1>7, <2>1, <2>2, TakenCounts
    <3> QED BY <2>1, <3>1 DEF Foretold
  <2>3. CASE cmd[p][q].op # "snapshot"
    <3>1. snaps' = snaps \ cmd[p][q].batch /\ cmd[p][q].op = "destroy"
      BY <1>7, <2>3, Success
    <3>2. \A s \in cmd[p][q].batch : ToDestroy(p, s)
      BY <3>1 DEF ToDestroy, Destroys
    <3>3. Left(p, d)' = Left(p, d)
      BY <1>2, <2>1, <3>1, <3>2 DEF Left, Destroys
    <3>4. Coming(p, d)' = Coming(p, d)
      BY <2>1, <2>3 DEF Coming, Takes
    <3> QED BY <1>3, <2>1, <3>3, <3>4
  <2> QED BY <2>2, <2>3
<1> QED BY <1>1, <1>4, <1>5, <1>6, <1>7, Kinds DEF Own, Discover, TypeOK

\* The cache is exact when an undisturbed run that has done all it forecast
\* writes it, and until the snapshots change.
LEMMA CacheStep ==
  ASSUME TypeOK, Structure, Foretold, CacheTruthful, [Next]_vars
  PROVE  CacheTruthful'
<1> USE DEF TypeOK
<1>1. \/ ~exact'
      \/ exact' = exact /\ cache' = cache /\ snaps' = snaps
      \/ \E r \in Runs : /\ pc[r] = "finished" /\ ~errors[r] /\ ~touched[r]
                         /\ cache' = forecast[r] /\ snaps' = snaps
  <2> USE DEF zfs, history
  <2>1. ASSUME NEW r \in Runs, Acquire(r) \/ Crash(r)
        PROVE  exact' = exact /\ cache' = cache /\ snaps' = snaps
    BY <2>1 DEF Acquire, Crash
  <2>2. ASSUME NEW r \in Runs, \/ Discover(r) \/ Plan(r) \/ Finish(r) \/ Release(r) \/ Abort(r)
        PROVE  exact' = exact /\ cache' = cache /\ snaps' = snaps
    BY <2>2 DEF Discover, Plan, Finish, Release, Abort
  <2>3. ASSUME NEW r \in Runs, WriteCache(r)
        PROVE  \/ ~exact'
               \/ exact' = exact /\ cache' = cache /\ snaps' = snaps
               \/ /\ pc[r] = "finished" /\ ~errors[r] /\ ~touched[r]
                  /\ cache' = forecast[r] /\ snaps' = snaps
    BY <2>3 DEF WriteCache
  <2>4. ASSUME NEW r \in Runs, NEW q \in Pools,
               \/ SpawnSnapshot(r, q) \/ SnapshotHookFails(r, q) \/ EndSnapshots(r, q)
               \/ SpawnDestroy(r, q) \/ PruneHookFails(r, q) \/ EndPrunes(r, q) \/ Fails(r, q)
        PROVE  exact' = exact /\ cache' = cache /\ snaps' = snaps
    BY <2>4 DEF SpawnSnapshot, SnapshotHookFails, EndSnapshots, SpawnDestroy, PruneHookFails,
                EndPrunes, Fails
  <2>5. ASSUME NEW r \in Runs, NEW q \in Pools, Succeeds(r, q) PROVE ~exact'
    BY <2>5 DEF Succeeds
  <2>6. CASE OrphanEnds
    BY <2>6 DEF OrphanEnds
  <2>7. CASE Tick \/ ToggleHold \/ ManualSnapshot \/ UNCHANGED vars
    BY <2>7 DEF Tick, ToggleHold, ManualSnapshot, vars
  <2> QED BY <2>1, <2>2, <2>3, <2>4, <2>5, <2>6, <2>7 DEF Next, Step
<1>2. ASSUME NEW r \in Runs, pc[r] = "finished", ~errors[r], ~touched[r]
      PROVE  forecast[r] = Count(snaps)
  <2>1. forecast[r] \in [Datasets -> Nat] /\ snaps \in SUBSET Snapshot
    OBVIOUS
  <2>2. ASSUME NEW d \in Datasets PROVE forecast[r][d] = Count(snaps)[d]
    <3>1. /\ \A k \in Classes : ~ToTake(r, k)
          /\ \A s \in Snapshot : ~ToDestroy(r, s)
      BY <1>2, AtRest
    <3>2. forecast[r][d] = Rest(r, d) + More(r, d)
      BY <1>2 DEF Foretold
    <3>3. More(r, d) = 0
      <4>1. {k \in Classes : ToTake(r, k) /\ DatasetOf[k] = d} = {}
        BY <3>1
      <4> QED BY <4>1, FS_EmptySet DEF More
    <3>4. Rest(r, d) = Count(snaps)[d] /\ Rest(r, d) \in Nat
      <4>1. {s \in snaps : ~ToDestroy(r, s) /\ DatasetOf[s.cls] = d}
              = {s \in snaps : DatasetOf[s.cls] = d}
        BY <2>1, <3>1
      <4>2. Cardinality({s \in snaps : DatasetOf[s.cls] = d}) \in Nat
        BY <2>1, Counts
      <4> QED BY <4>1, <4>2 DEF Rest, Count
    <3> QED BY <3>2, <3>3, <3>4
  <2>3. Count(snaps) = [d \in Datasets |-> Count(snaps)[d]]
    BY DEF Count
  <2> QED BY <2>1, <2>2, <2>3
<1> QED BY <1>1, <1>2 DEF CacheTruthful, Count
-----------------------------------------------------------------------------
(* One snapshot for a scheduled instant *)

\* A managed snapshot comes from a command of a live run, now, of a class that
\* the run was taking, when no command survives its run.
LEMMA Added ==
  ASSUME TypeOK, Structure, ~OrphansSurvive, [Next]_vars,
         NEW s \in snaps' \ snaps, s.managed
  PROVE  \E p \in Runs, q \in Pools :
           /\ cmd[p][q] # Nothing
           /\ \E k \in Classes : Takes(cmd[p][q], k) /\ s = Taken(p, k)
<1> USE DEF TypeOK
<1>1. orphans = {}
  BY DEF Structure, NoOrphans
<1>2. ASSUME NEW r \in Runs, NEW q \in Pools, Succeeds(r, q)
      PROVE  /\ cmd[r][q] # Nothing
             /\ \E k \in Classes : Takes(cmd[r][q], k) /\ s = Taken(r, k)
  <2>1. /\ cmd[r][q].op = "snapshot" /\ cmd[r][q].batch \subseteq Classes
        /\ snaps' = snaps \cup {Taken(r, k) : k \in cmd[r][q].batch}
    BY <1>2, Success
  <2> QED BY <1>2, <2>1 DEF Takes, Nothing, Succeeds
<1>3. ASSUME NEW r \in Runs, Acquire(r) \/ Step(r) \/ Crash(r),
             \A q \in Pools : ~Succeeds(r, q)
      PROVE  snaps' = snaps
  BY <1>3 DEF Acquire, Crash, Step, Discover, Plan, Finish, WriteCache, Release, Abort,
              SpawnSnapshot, EndSnapshots, SpawnDestroy, EndPrunes, Fails, zfs
<1>4. CASE \E r \in Runs, q \in Pools : SnapshotHookFails(r, q) \/ PruneHookFails(r, q)
  BY <1>4 DEF SnapshotHookFails, PruneHookFails, zfs
<1>5. CASE OrphanEnds
  BY <1>1, <1>5 DEF OrphanEnds
<1>6. CASE Tick \/ ToggleHold \/ UNCHANGED vars
  BY <1>6 DEF Tick, ToggleHold, vars, zfs
<1>7. CASE ManualSnapshot
  <2>1. PICK k \in Classes :
          snaps' = snaps \cup {[cls |-> k, name |-> 0, at |-> clock, managed |-> FALSE]}
    BY <1>7 DEF ManualSnapshot
  <2> QED BY <2>1
<1> QED BY <1>2, <1>3, <1>4, <1>5, <1>6, <1>7 DEF Next

\* The run that takes it found none for that instant, and nobody took one since.
LEMMA OneStep ==
  ASSUME TypeOK, TypeOK', Structure, Planned, Behind, ~OrphansSurvive, OnePerPeriod,
         [Next]_vars
  PROVE  OnePerPeriod'
<1>1. ASSUME NEW s \in snaps' \ snaps, NEW t \in snaps, s.managed, t.managed, s.cls = t.cls
      PROVE  Preferred(s.cls, s.at) # Preferred(t.cls, t.at)
  <2>1. PICK p \in Runs, q \in Pools :
          \E k \in Classes : Takes(cmd[p][q], k) /\ s = Taken(p, k)
    BY <1>1, Added
  <2>2. s.cls \in Classes /\ Takes(cmd[p][q], s.cls) /\ s.at = clock
    BY <2>1 DEF Taken
  <2>3. t.at < Preferred(s.cls, planned[p])
    BY <1>1, <2>2 DEF Behind, ToTake, Undisturbed
  <2>4. t.at \in Nat /\ planned[p] \in Nat /\ clock \in Nat /\ planned[p] <= clock
    BY ZsnapRunAssumption DEF TypeOK, Snapshot, Planned
  <2>5. /\ Preferred(s.cls, t.at) \in Nat /\ Preferred(s.cls, t.at) <= t.at
        /\ Preferred(s.cls, clock) \in Nat /\ Preferred(s.cls, planned[p]) \in Nat
        /\ Preferred(s.cls, planned[p]) <= Preferred(s.cls, clock)
    BY <2>2, <2>4, PreferredLatest
  <2> QED BY <1>1, <2>2, <2>3, <2>4, <2>5
<1>2. ASSUME NEW s \in snaps' \ snaps, NEW t \in snaps' \ snaps, s.managed, t.managed,
             s.cls = t.cls
      PROVE  s = t
  <2>1. PICK p \in Runs, q \in Pools :
          /\ cmd[p][q] # Nothing
          /\ \E k \in Classes : Takes(cmd[p][q], k) /\ s = Taken(p, k)
    BY <1>2, Added
  <2>2. PICK r \in Runs, j \in Pools :
          /\ cmd[r][j] # Nothing
          /\ \E k \in Classes : Takes(cmd[r][j], k) /\ t = Taken(r, k)
    BY <1>2, Added
  <2>3. p = r
    BY <2>1, <2>2, InFlight, Lonely
  <2> QED BY <1>2, <2>1, <2>2, <2>3 DEF Taken
<1> QED BY <1>1, <1>2 DEF OnePerPeriod

-----------------------------------------------------------------------------
(* The invariant and the theorems *)

\* Every part of the invariant holds before the first invocation.
LEMMA InvInit == Init => IInv
<1> SUFFICES ASSUME Init PROVE IInv
  OBVIOUS
<1>1. TypeOK /\ Structure /\ FloorKept /\ Aged
  BY TypeInit, StructureInit, FloorInit
<1>2. \A p \in Runs : pc[p] = "idle" /\ planned[p] = 0
  BY DEF Init
<1>3. \A p \in Runs, k \in Classes : ~ToTake(p, k)
  BY <1>1, <1>2, AtRest
<1>4. Planned
  BY <1>1, <1>2, <1>3, ZsnapRunAssumption DEF Planned, TypeOK
<1>5. Listed /\ Behind /\ Fresh /\ Foretold
  BY <1>2, <1>3 DEF Listed, Behind, Fresh, Foretold
<1>6. OnePerPeriod /\ CacheTruthful
  BY ZsnapRunAssumption DEF Init, OnePerPeriod, CacheTruthful
<1> QED BY <1>1, <1>4, <1>5, <1>6 DEF IInv

\* Every step keeps every part of it.
LEMMA InvStep == IInv /\ [Next]_vars => IInv'
<1> SUFFICES ASSUME IInv, [Next]_vars PROVE IInv'
  OBVIOUS
<1> USE DEF IInv
<1>1. TypeOK' /\ Structure'
  BY TypeStep, StructureStep
<1>2. Planned' /\ FloorKept' /\ Aged'
  BY <1>1, PlannedStep, FloorStep
<1>3. Listed' /\ Behind'
  BY ListedStep, BehindStep
<1>4. Fresh' /\ Foretold'
  BY <1>1, FreshStep, ForetoldStep
<1>5. CacheTruthful' /\ (~OrphansSurvive => OnePerPeriod')
  BY <1>1, CacheStep, OneStep
<1> QED BY <1>1, <1>2, <1>3, <1>4, <1>5

\* The invariant holds in every state that invocations reach.
LEMMA Invariant == Spec => []IInv
<1>1. IInv /\ UNCHANGED vars => IInv'
  BY InvStep
<1> QED BY InvInit, InvStep, PTL DEF Spec

\* Every variable keeps its type.
THEOREM RunTypes == Spec => []TypeOK
<1>1. IInv => TypeOK
  BY DEF IInv
<1> QED BY <1>1, Invariant, PTL

\* README.md:36, execute's prune loop: whatever other runs, administrators and
\* commands that outlived their run do meanwhile, a destroy only takes managed
\* snapshots past their window and leaves Keep managed ones of the class.
THEOREM PruneKeepsFloor == Spec => RetentionFloor
<1>1. ASSUME IInv, IInv', [Next]_vars, NEW c \in Classes,
             {s \in snaps \ snaps' : s.cls = c} # {}
      PROVE  /\ \A s \in {s \in snaps \ snaps' : s.cls = c} :
                  s.managed /\ s.at + Window[c] < clock
             /\ Cardinality({s \in snaps' : s.cls = c /\ s.managed}) >= Keep[c]
  <2>1. ~Plans
    BY <1>1, PlanFacts DEF Plans, IInv
  <2>2. NoNewWork /\ NoSurprise
    BY <1>1, <2>1, WorkStep, SurpriseStep DEF IInv
  <2>3. {s \in snaps \ snaps' : s.cls = c} \subseteq Doomed
    BY <2>2 DEF NoSurprise
  <2>4. \A s \in {s \in snaps \ snaps' : s.cls = c} : s.managed /\ s.at + Window[c] < clock
    BY <1>1, <2>3 DEF IInv, Aged
  <2>5. PICK y \in Doomed : y.cls = c
    BY <1>1, <2>3
  <2>6. Cardinality(Spared(y)) >= Keep[c]
    BY <1>1, <2>5 DEF IInv, FloorKept
  <2>7. Spared(y) \subseteq {s \in snaps' : s.cls = c /\ s.managed}
    BY <2>2, <2>5 DEF NoSurprise, Spared
  <2>8. {s \in snaps' : s.cls = c /\ s.managed} \in SUBSET Snapshot
    BY <1>1 DEF IInv, TypeOK
  <2>9. /\ Cardinality(Spared(y)) \in Nat
        /\ Cardinality({s \in snaps' : s.cls = c /\ s.managed}) \in Nat
        /\ Cardinality(Spared(y)) <= Cardinality({s \in snaps' : s.cls = c /\ s.managed})
    BY <2>7, <2>8, Counts
  <2>10. Keep[c] \in Nat
    BY ZsnapRunAssumption
  <2> QED BY <2>4, <2>6, <2>9, <2>10
<1>2. IInv /\ IInv' /\ [Next]_vars =>
        [\A c \in Classes :
           LET gone == {s \in snaps \ snaps' : s.cls = c}
           IN gone # {} =>
                /\ \A s \in gone : s.managed /\ s.at + Window[c] < clock
                /\ Cardinality({s \in snaps' : s.cls = c /\ s.managed}) >= Keep[c]]_vars
  BY <1>1
<1> QED BY <1>2, Invariant, PTL DEF Spec, RetentionFloor

\* run_zfs_command holds the lock across discovery, planning and mutation: when
\* a killed run takes its zfs commands with it, no class ever gets two managed
\* snapshots for one scheduled instant.
THEOREM OneForEachPeriod == ~OrphansSurvive => (Spec => []OnePerPeriod)
<1> SUFFICES ASSUME ~OrphansSurvive PROVE Spec => []OnePerPeriod
  OBVIOUS
<1>1. IInv => OnePerPeriod
  BY DEF IInv
<1> QED BY <1>1, Invariant, PTL

\* A run that ends without an error has left every class that it was to
\* snapshot with one of the latest scheduled instant of its plan.
THEOREM SuccessIsFresh == Spec => []SuccessMeansFresh
<1>1. IInv => SuccessMeansFresh
  <2> SUFFICES ASSUME IInv, NEW r \in Runs, pc[r] = "finished", ~errors[r],
                      scope[r] # "prune", NEW k \in Classes, Keep[k] # 0
               PROVE  \E s \in snaps : s.cls = k /\ s.at >= Preferred(k, planned[r])
    BY DEF SuccessMeansFresh
  <2>1. ~ToTake(r, k)
    BY AtRest DEF IInv
  <2> QED BY <2>1 DEF IInv, Fresh
<1> QED BY <1>1, Invariant, PTL

\* The dataset counts that from_inventory predicts and a successful run caches
\* are those of the snapshots that exist, unless others changed them meanwhile.
THEOREM CacheTellsTruth == Spec => []CacheTruthful
<1>1. IInv => CacheTruthful
  BY DEF IInv
<1> QED BY <1>1, Invariant, PTL
=============================================================================
